---- MODULE Spec2Model ----
(***************************************************************************)
(* Triple-buffered GPU frame exchange of media_kit_video (Linux):           *)
(* media_kit_video/linux/texture_gl.cc.                                     *)
(*                                                                          *)
(* Two threads share one TextureGL object.  The render thread runs          *)
(* texture_gl_check_and_resize, texture_gl_render and                       *)
(* texture_gl_swap_buffers; the host thread runs                            *)
(* texture_gl_populate_texture.  Every access to a field that the other     *)
(* thread can touch is one step of the model, so that every interleaving    *)
(* of the two functions' loads and stores is a behaviour.                   *)
(***************************************************************************)
EXTENDS Integers, Sequences, FiniteSets, TLC

\* texture_gl.cc:17
NUM_BUFFERS == 3

\* Number of frames the decoder signals, one render task each.
MaxTasks == 4

\* The sizes video_output_get_width/height report for a render task: not yet
\* known, and two different video sizes.
VideoSizes == {<<0, 0>>, <<1, 1>>, <<2, 1>>}

Slots == 0 .. (NUM_BUFFERS - 1)

\* EGL_NO_SYNC_KHR, EGL_NO_IMAGE_KHR and the GL name 0.
EGL_NO_SYNC_KHR == 0
EGL_NO_IMAGE_KHR == 0

\* select_write_buffer starts its minimum at UINT64_MAX; the model uses a
\* value above every sequence number it can reach.
UINT64_MAX == MaxTasks + 2

\* GL texture names: glGenTextures never returns 0.  Slot i's host-side
\* texture is named i + 1, the static 1x1 dummy texture has its own name.
TextureName(i) == i + 1
DummyName == NUM_BUFFERS + 1

VARIABLES
  \* ---- struct _TextureGL ----
  seq,                    \* buffers[i].seq
  render_sync,            \* buffers[i].render_sync (EGL_NO_SYNC_KHR or a live handle)
  egl_image,              \* buffers[i].egl_image   (EGL_NO_IMAGE_KHR or a live handle)
  fbo,                    \* buffers[i].fbo / .texture (0 or a live object)
  flutter_textures,       \* flutter_textures[i]
  flutter_textures_valid, \* flutter_textures_valid[i]
  producer_seq,
  display_seq,
  consumer_seq,
  write_index,
  current_width,
  current_height,
  buffers_initialized,
  initialization_posted,
  resizing,
  resize_mutex,           \* "free" or the thread holding it
  \* ---- GPU and GL objects outside the struct ----
  gpu_queue,              \* slots with submitted, not yet completed render commands (in order)
  flutter_backing,        \* what flutter_textures[i] is bound to: "none", "live", "destroyed"
  \* ---- render thread ----
  rpc, req_w, req_h, first_frame, zi,
  render_context,         \* video_output_get_render_context(video_output) is not NULL
  current_display_seq,    \* select_write_buffer's load of display_seq (line 298)
  \* ---- host thread ----
  cpc, best_idx, best_seq, ci, buf_seq, display_idx, max_seq, selected_seq,
  out_w,                  \* *width as written at line 534 by the running poll
  ret,                    \* what the most recent poll returned, until the next poll begins
  \* ---- history ----
  best_fence,             \* what the poll found at the fence of its candidate best_idx
  poll_quiet,             \* the running poll began with the render thread and the GPU idle, and neither has stepped since
  poll_cold,              \* every seq was 0 when the running poll began and nothing was published since
  entry_posted,           \* initialization_posted on entry of the running poll
  epoch_clean,            \* a reallocation has returned and nothing was published since
  tasks,                  \* render tasks started so far
  render_error,           \* mpv_render_context_render of the running task returned an error
  no_candidate,           \* the running poll left its scan (lines 450-475) with best_idx = -1
  read_fresh,             \* buf_seq was read (line 452) while its frame was the last one rendered into the slot
  seen_sync               \* the handle the running poll found at line 458, until it has used it

\* ---- the double-buffered TextureGL (two buffers, front and back) ----

\* NUM_BUFFERS of the double-buffered variant.
NUM_BUFFERS_2 == 2

Buffers == 0 .. (NUM_BUFFERS_2 - 1)

VARIABLES
  front_index,      \* index of the front buffer (read by the host)
  back_index,       \* index of the back buffer (rendered into)
  ready,            \* buffers[i].ready
  sync,             \* buffers[i].sync (EGL_NO_SYNC_KHR or a live handle)
  buf_fbo,          \* buffers[i].fbo
  buf_image,        \* buffers[i].egl_image
  buf_size,         \* << current_width, current_height >>
  needs_flutter_texture_update,
  flutter_texture,  \* 0, or the name of the texture handed to the host
  posted,           \* initialization_posted
  bpc,              \* position of the render thread in its task
  bw, bh,           \* the size the running task asks for
  reading,          \* buffers whose fence the host's GPU work has not passed yet
  frame_in,         \* the number of the frame each buffer holds (0: none)
  rendered,         \* the running task's texture_gl_render rendered a frame
  btasks            \* render tasks started so far

dbvars == << front_index, back_index, ready, sync, buf_fbo, buf_image, buf_size,
             needs_flutter_texture_update, flutter_texture, posted, bpc, bw, bh,
             reading, frame_in, rendered, btasks >>

\* texture_gl_init of the double-buffered variant.
DbCreated ==
  /\ front_index = 0
  /\ back_index = 1
  /\ ready = [i \in Buffers |-> FALSE]
  /\ sync = [i \in Buffers |-> EGL_NO_SYNC_KHR]
  /\ buf_fbo = [i \in Buffers |-> 0]
  /\ buf_image = [i \in Buffers |-> EGL_NO_IMAGE_KHR]
  /\ buf_size = << 1, 1 >>
  /\ needs_flutter_texture_update = FALSE
  /\ flutter_texture = 0
  /\ posted = FALSE
  /\ bpc = "idle" /\ bw = 0 /\ bh = 0
  /\ reading = {}
  /\ frame_in = [i \in Buffers |-> 0]
  /\ rendered = FALSE
  /\ btasks = 0

texvars == << seq, render_sync, egl_image, fbo, flutter_textures,
              flutter_textures_valid, producer_seq, display_seq, consumer_seq,
              write_index, current_width, current_height, buffers_initialized,
              initialization_posted, resizing, resize_mutex >>
envvars == << gpu_queue, flutter_backing, render_context >>
rvars == << rpc, req_w, req_h, first_frame, zi, current_display_seq >>
cvars == << cpc, best_idx, best_seq, ci, buf_seq, display_idx, max_seq,
            selected_seq, out_w, ret >>
xvars == << render_error, no_candidate, read_fresh, seen_sync >>
hvars == << best_fence, poll_quiet, poll_cold, entry_posted, epoch_clean, tasks,
           dbvars, xvars >>
texall == << texvars, envvars, rvars, cvars, hvars >>

(***************************************************************************)
(* GLRenderThread: the worker thread, its task queue and its callers.      *)
(***************************************************************************)

\* Bound: tasks handed to Post or PostAndWait, nested ones included.
MaxPosts == 3

\* The threads that call into the GLRenderThread from outside.
Hosts == {"h1", "h2"}

\* The thread the constructor starts.
Worker == "worker"

Threads == Hosts \cup {Worker}

TaskIds == 1 .. MaxPosts

\* What the body of a task does: nothing that concerns the GLRenderThread,
\* a Post of another task, or a PostAndWait of another task.
TaskKinds == {"plain", "post", "wait"}

VARIABLES
  stop_,         \* std::atomic<bool> stop_
  running_,      \* std::atomic<bool> running_
  tasks_,        \* std::queue<std::function<void()>> tasks_
  mutex_,        \* "free", or the thread that holds mutex_
  thread_id_,    \* "none" until Run stores the worker's id
  pc,            \* position of each thread
  op,            \* the member function each thread last called
  arg,           \* the task each thread passed to that call
  res,           \* what that call returned
  task,          \* Run's local `task` (0: empty)
  waiter,        \* the PostAndWait whose locals the running wrapper captured
  done,          \* PostAndWait's local `done`, per caller
  kind,          \* what the body of each task does
  next_id,       \* next unused task id
  accepted,      \* tasks in the order they were pushed onto tasks_
  executed,      \* tasks in the order Run called them
  completed,     \* tasks whose body has returned
  inlined,       \* tasks PostAndWait ran inline
  rejected,      \* tasks whose Post or PostAndWait returned false
  shutdown_returned, \* a RequestShutdown has returned
  stale_notify,  \* wait_cv.notify_one() ran after its PostAndWait returned
  destroyed      \* "no", "destroying" (in the destructor), "yes"

glshared == << stop_, running_, tasks_, mutex_, thread_id_ >>
glthread == << pc, op, arg, res, task, waiter, done >>
glhist == << kind, next_id, accepted, executed, completed, inlined, rejected,
             shutdown_returned, stale_notify, destroyed >>
glvars == << glshared, glthread, glhist >>

\* GLRenderThread::GLRenderThread: stop_(false), running_(false), and the
\* worker thread is started; it has not yet executed a statement of Run.
InitGL ==
  /\ stop_ = FALSE
  /\ running_ = FALSE
  /\ tasks_ = << >>
  /\ mutex_ = "free"
  /\ thread_id_ = "none"
  /\ pc = [t \in Threads |-> IF t = Worker THEN "run_init" ELSE "idle"]
  /\ op = [t \in Threads |-> "none"]
  /\ arg = [t \in Threads |-> 0]
  /\ res = [t \in Threads |-> "none"]
  /\ task = 0
  /\ waiter = "none"
  /\ done = [h \in Hosts |-> FALSE]
  /\ kind = [t \in TaskIds |-> "none"]
  /\ next_id = 1
  /\ accepted = << >>
  /\ executed = << >>
  /\ completed = {}
  /\ inlined = {}
  /\ rejected = {}
  /\ shutdown_returned = FALSE
  /\ stale_notify = FALSE
  /\ destroyed = "no"

(***************************************************************************)
(* VideoOutput: construction, disposal and the decoder's update callback.  *)
(* media_kit_video/linux/video_output.cc.                                  *)
(***************************************************************************)

\* Bound: invocations of the update callback by the decoder.
MaxCallbacks == 2

\* EGL_NO_CONTEXT and EGL_NO_SURFACE.
EGL_NO_CONTEXT == "none"
EGL_NO_SURFACE == "none"

\* What is current on the host thread when it is not inside this component:
\* nothing, or Flutter's context with its draw and read surfaces.
NoCurrent == [ctx |-> EGL_NO_CONTEXT, draw |-> EGL_NO_SURFACE, read |-> EGL_NO_SURFACE]
FlutterCurrent == [ctx |-> "flutter", draw |-> "flutter_draw", read |-> "flutter_read"]

VARIABLES
  \* ---- struct _VideoOutput ----
  texture_gl,      \* "null", "live", or "freed" (the pointer dangles)
  texture_sw,      \* "null", "live", or "freed"
  pixel_buffer,    \* "null", "live", or "freed"
  egl_display,     \* TRUE: not EGL_NO_DISPLAY
  egl_context,     \* EGL_NO_CONTEXT or "producer"
  egl_surface,     \* EGL_NO_SURFACE, "pbuffer", or a surface of the host
  using_flutter_surface,
  vo_destroyed,    \* self->destroyed
  vo_mutex,        \* self->mutex: "free", "host", or "cleared"
  width,           \* self->width
  height,          \* self->height
  \* ---- configuration and build ----
  enable_hardware_acceleration,
  sw_api,          \* MPV_RENDER_API_TYPE_SW is defined
  gl_thread,       \* video_output_get_gl_render_thread(video_output) is not NULL
  \* ---- EGL, the decoder and the registrar ----
  host_cur,        \* context and surfaces current on the host thread
  update_cb,       \* the decoder's update callback: "none", "hw", "sw"
  registered,      \* textures registered with the registrar
  context_alive,   \* the producer context exists
  surfaces_destroyed, \* surfaces handed to eglDestroySurface
  dw, dh, rotate,  \* "video-out-params" of the decoder
  \* ---- threads ----
  hpc,             \* position of the host thread
  dpc,             \* position of the decoder thread inside the update callback
  tpc,             \* position of the teardown task on the render thread
  flutter_saved,   \* flutter_context, flutter_draw_surface, flutter_read_surface
  hardware_acceleration_supported,
  idle_queue,      \* idle callbacks scheduled by gdk_threads_add_idle, not yet run
  callbacks,       \* update callbacks invoked so far
  cb_after,        \* the running update callback began after destroyed was set
  got_width,       \* what video_output_get_width returned to the last query, until the size changes
  got_height,      \* what video_output_get_height returned to it
  \* ---- history ----
  host_entry,      \* host_cur on entry of the running operation
  free_log,        \* one record per mpv_render_context_free of the hardware path
  late_use,        \* something was used after dispose had released it
  hw_ok,           \* the hardware init steps of video_output_new that succeeded
  unwaited         \* slots whose fence the teardown destroyed while commands were pending

vofields == << texture_gl, texture_sw, pixel_buffer, egl_display, egl_context,
               egl_surface, using_flutter_surface, vo_destroyed, vo_mutex,
               width, height >>
voconf == << enable_hardware_acceleration, sw_api, gl_thread >>
voenv == << host_cur, update_cb, registered, context_alive, surfaces_destroyed,
            dw, dh, rotate >>
vothread == << hpc, dpc, tpc, flutter_saved, hardware_acceleration_supported,
               idle_queue, callbacks, cb_after, got_width, got_height >>
vohist == << host_entry, free_log, late_use, hw_ok, unwaited >>
vovars == << vofields, voconf, voenv, vothread, vohist >>

\* video_output_init.
VoCreated ==
  /\ texture_gl = "null"
  /\ texture_sw = "null"
  /\ pixel_buffer = "null"
  /\ egl_display = FALSE
  /\ egl_context = EGL_NO_CONTEXT
  /\ egl_surface = EGL_NO_SURFACE
  /\ using_flutter_surface = FALSE
  /\ vo_destroyed = FALSE
  /\ vo_mutex = "free"
  /\ width = 0
  /\ height = 0
  /\ update_cb = "none"
  /\ registered = {}
  /\ context_alive = FALSE
  /\ surfaces_destroyed = {}
  /\ hpc = "created"
  /\ dpc = "idle"
  /\ tpc = "idle"
  /\ flutter_saved = NoCurrent
  /\ hardware_acceleration_supported = FALSE
  /\ idle_queue = 0
  /\ callbacks = 0
  /\ cb_after = FALSE
  /\ got_width = 0
  /\ got_height = 0
  /\ free_log = {}
  /\ late_use = FALSE
  /\ hw_ok = {}
  /\ unwaited = {}

\* A VideoOutput about to be constructed with hardware acceleration requested,
\* on a host thread that has Flutter's context current; no video yet.
InitVO ==
  /\ VoCreated
  /\ enable_hardware_acceleration = TRUE
  /\ sw_api = TRUE
  /\ gl_thread = TRUE
  /\ host_cur = FlutterCurrent
  /\ host_entry = FlutterCurrent
  /\ dw = 0 /\ dh = 0 /\ rotate = 0

vars == << texall, glvars, vovars >>

NoRet == [kind |-> "none", idx |-> 0, name |-> 0, w |-> 0, h |-> 0, ok |-> FALSE]

\* A fence is signaled once the render commands submitted before it have
\* completed.  A live fence in slot i always follows the latest render into
\* slot i (texture_gl_render destroys the old one before rendering).
Signaled(i) == \A k \in 1 .. Len(gpu_queue) : gpu_queue[k] # i

Remove(q, i) == SelectSeq(q, LAMBDA x : x # i)

\* texture_gl_init
InitTex ==
  /\ seq = [i \in Slots |-> 0]
  /\ render_sync = [i \in Slots |-> EGL_NO_SYNC_KHR]
  /\ egl_image = [i \in Slots |-> EGL_NO_IMAGE_KHR]
  /\ fbo = [i \in Slots |-> 0]
  /\ flutter_textures = [i \in Slots |-> 0]
  /\ flutter_textures_valid = [i \in Slots |-> FALSE]
  /\ producer_seq = 1
  /\ display_seq = 0
  /\ consumer_seq = 0
  /\ write_index = 0
  /\ current_width = 1
  /\ current_height = 1
  /\ buffers_initialized = FALSE
  /\ initialization_posted = FALSE
  /\ resizing = FALSE
  /\ resize_mutex = "free"
  /\ gpu_queue = << >>
  /\ render_context \in BOOLEAN   \* created, or not, before the first render task
  /\ flutter_backing = [i \in Slots |-> "none"]
  /\ rpc = "idle" /\ req_w = 0 /\ req_h = 0 /\ first_frame = FALSE /\ zi = 0
  /\ current_display_seq = 0
  /\ cpc = "idle" /\ best_idx = -1 /\ best_seq = 0 /\ ci = 0 /\ buf_seq = 0
  /\ display_idx = -1 /\ max_seq = 0 /\ selected_seq = 0
  /\ out_w = 0
  /\ ret = NoRet
  /\ best_fence = "none"
  /\ poll_quiet = FALSE
  /\ poll_cold = FALSE
  /\ entry_posted = FALSE
  /\ epoch_clean = FALSE
  /\ tasks = 0
  /\ render_error = FALSE
  /\ no_candidate = FALSE
  /\ read_fresh = FALSE
  /\ seen_sync = EGL_NO_SYNC_KHR
  /\ DbCreated

Init == InitTex /\ InitGL /\ InitVO

(***************************************************************************)
(* Render thread                                                           *)
(***************************************************************************)

\* A step of the render thread or of the GPU: a poll that overlaps it is no
\* longer a poll of a quiescent pool.
RenderQuiet == /\ poll_quiet' = FALSE
               /\ UNCHANGED << best_fence, entry_posted, dbvars, glvars, vovars,
                               no_candidate, read_fresh, seen_sync >>

RenderHistory == RenderQuiet /\ UNCHANGED render_error

\* texture_gl_check_and_resize returns: its parameters and locals are gone.
ResizeReturns == req_w' = 0 /\ req_h' = 0 /\ first_frame' = FALSE /\ zi' = 0

\* The render task the orchestrator posts for a decoder notification:
\* texture_gl_check_and_resize(w, h); texture_gl_render; and, when that
\* returned TRUE, texture_gl_swap_buffers.
TaskStart(w, h) ==
  /\ rpc = "idle"
  /\ tasks < MaxTasks
  /\ tasks' = tasks + 1
  /\ rpc' = "resize_check"
  /\ req_w' = w /\ req_h' = h
  /\ UNCHANGED << first_frame, zi, current_display_seq, texvars, envvars, cvars, poll_cold, epoch_clean >>
  /\ RenderHistory

\* The early return without the comparison of the sizes.
Resize_Check_always ==
  /\ rpc = "resize_check"
  /\ IF req_w < 1 \/ req_h < 1
       THEN /\ rpc' = "render"
            /\ ResizeReturns
       ELSE /\ first_frame' = ~buffers_initialized
            /\ rpc' = "z_set_resizing"
            /\ UNCHANGED << req_w, req_h, zi >>
  /\ UNCHANGED << current_display_seq, texvars, envvars, cvars, poll_cold, epoch_clean, tasks >>
  /\ RenderHistory

\* texture_gl_check_and_resize, lines 194-204: the early returns.
Resize_Check ==
  /\ rpc = "resize_check"
  /\ IF \/ req_w < 1 \/ req_h < 1
        \/ (buffers_initialized /\ current_width = req_w /\ current_height = req_h)
       THEN /\ rpc' = "render"
            /\ ResizeReturns
       ELSE /\ first_frame' = ~buffers_initialized
            /\ rpc' = "z_set_resizing"
            /\ UNCHANGED << req_w, req_h, zi >>
  /\ UNCHANGED << current_display_seq, texvars, envvars, cvars, poll_cold, epoch_clean, tasks >>
  /\ RenderHistory

\* line 213
Resize_SetResizing ==
  /\ rpc = "z_set_resizing"
  /\ resizing' = TRUE
  /\ rpc' = "z_lock"
  /\ UNCHANGED << seq, render_sync, egl_image, fbo, flutter_textures,
                  flutter_textures_valid, producer_seq, display_seq, consumer_seq,
                  write_index, current_width, current_height, buffers_initialized,
                  initialization_posted, resize_mutex >>
  /\ UNCHANGED << req_w, req_h, first_frame, zi, current_display_seq, envvars, cvars, poll_cold, epoch_clean, tasks >>
  /\ RenderHistory

\* line 214: g_mutex_lock blocks while the mutex is held.
Resize_Lock ==
  /\ rpc = "z_lock"
  /\ resize_mutex = "free"
  /\ resize_mutex' = "render"
  /\ zi' = 0
  /\ rpc' = IF first_frame THEN "z_create" ELSE "z_wait"
  /\ UNCHANGED << seq, render_sync, egl_image, fbo, flutter_textures,
                  flutter_textures_valid, producer_seq, display_seq, consumer_seq,
                  write_index, current_width, current_height, buffers_initialized,
                  initialization_posted, resizing >>
  /\ UNCHANGED << req_w, req_h, first_frame, current_display_seq, envvars, cvars, poll_cold, epoch_clean, tasks >>
  /\ RenderHistory

\* lines 222-226: wait FOREVER on the slot's fence, then destroy it.
Resize_WaitSync ==
  /\ rpc = "z_wait"
  /\ render_sync[zi] # EGL_NO_SYNC_KHR => Signaled(zi)
  /\ render_sync' = [render_sync EXCEPT ![zi] = EGL_NO_SYNC_KHR]
  /\ rpc' = "z_destroy"
  /\ UNCHANGED << seq, egl_image, fbo, flutter_textures,
                  flutter_textures_valid, producer_seq, display_seq, consumer_seq,
                  write_index, current_width, current_height, buffers_initialized,
                  initialization_posted, resizing, resize_mutex >>
  /\ UNCHANGED << req_w, req_h, first_frame, zi, current_display_seq, envvars, cvars, poll_cold, epoch_clean, tasks >>
  /\ RenderHistory

\* lines 228-234: destroy the slot's image, texture and FBO.  A host texture
\* bound to the image is now backed by a destroyed image.
Resize_Destroy ==
  /\ rpc = "z_destroy"
  /\ egl_image' = [egl_image EXCEPT ![zi] = EGL_NO_IMAGE_KHR]
  /\ fbo' = [fbo EXCEPT ![zi] = 0]
  /\ flutter_backing' = [flutter_backing EXCEPT ![zi] =
                           IF egl_image[zi] # EGL_NO_IMAGE_KHR /\ @ = "live"
                             THEN "destroyed" ELSE @]
  /\ gpu_queue' = Remove(gpu_queue, zi)
  /\ rpc' = "z_create"
  /\ UNCHANGED << seq, render_sync, flutter_textures,
                  flutter_textures_valid, producer_seq, display_seq, consumer_seq,
                  write_index, current_width, current_height, buffers_initialized,
                  initialization_posted, resizing, resize_mutex >>
  /\ UNCHANGED << req_w, req_h, first_frame, zi, current_display_seq, render_context, cvars, poll_cold, epoch_clean, tasks >>
  /\ RenderHistory

\* lines 238-266: fresh FBO, texture and image; no fence.
Resize_Create ==
  /\ rpc = "z_create"
  /\ fbo' = [fbo EXCEPT ![zi] = 1]
  /\ egl_image' = [egl_image EXCEPT ![zi] = 1]
  /\ render_sync' = [render_sync EXCEPT ![zi] = EGL_NO_SYNC_KHR]
  /\ IF zi + 1 < NUM_BUFFERS
       THEN /\ zi' = zi + 1
            /\ rpc' = IF first_frame THEN "z_create" ELSE "z_wait"
       ELSE /\ zi' = 0
            /\ rpc' = "z_reset_seq"
  /\ UNCHANGED << seq, flutter_textures,
                  flutter_textures_valid, producer_seq, display_seq, consumer_seq,
                  write_index, current_width, current_height, buffers_initialized,
                  initialization_posted, resizing, resize_mutex >>
  /\ UNCHANGED << req_w, req_h, first_frame, current_display_seq, envvars, cvars, poll_cold, epoch_clean, tasks >>
  /\ RenderHistory

\* lines 273-275: one store per slot.
Resize_ResetSeq ==
  /\ rpc = "z_reset_seq"
  /\ seq' = [seq EXCEPT ![zi] = 0]
  /\ IF zi + 1 < NUM_BUFFERS
       THEN zi' = zi + 1 /\ rpc' = "z_reset_seq"
       ELSE zi' = 0 /\ rpc' = "z_reset_producer"
  /\ UNCHANGED << render_sync, egl_image, fbo, flutter_textures,
                  flutter_textures_valid, producer_seq, display_seq, consumer_seq,
                  write_index, current_width, current_height, buffers_initialized,
                  initialization_posted, resizing, resize_mutex >>
  /\ UNCHANGED << req_w, req_h, first_frame, current_display_seq, envvars, cvars, poll_cold, epoch_clean, tasks >>
  /\ RenderHistory

\* line 276
Resize_ResetProducer ==
  /\ rpc = "z_reset_producer"
  /\ producer_seq' = 1
  /\ rpc' = "z_reset_display"
  /\ UNCHANGED << seq, render_sync, egl_image, fbo, flutter_textures,
                  flutter_textures_valid, display_seq, consumer_seq,
                  write_index, current_width, current_height, buffers_initialized,
                  initialization_posted, resizing, resize_mutex >>
  /\ UNCHANGED << req_w, req_h, first_frame, zi, current_display_seq, envvars, cvars, poll_cold, epoch_clean, tasks >>
  /\ RenderHistory

\* line 277
Resize_ResetDisplay ==
  /\ rpc = "z_reset_display"
  /\ display_seq' = 0
  /\ rpc' = "z_reset_consumer"
  /\ UNCHANGED << seq, render_sync, egl_image, fbo, flutter_textures,
                  flutter_textures_valid, producer_seq, consumer_seq,
                  write_index, current_width, current_height, buffers_initialized,
                  initialization_posted, resizing, resize_mutex >>
  /\ UNCHANGED << req_w, req_h, first_frame, zi, current_display_seq, envvars, cvars, poll_cold, epoch_clean, tasks >>
  /\ RenderHistory

\* lines 278-279 (write_index is private to the render thread)
Resize_ResetConsumer ==
  /\ rpc = "z_reset_consumer"
  /\ consumer_seq' = 0
  /\ write_index' = 0
  /\ rpc' = "z_invalidate"
  /\ UNCHANGED << seq, render_sync, egl_image, fbo, flutter_textures,
                  flutter_textures_valid, producer_seq, display_seq,
                  current_width, current_height, buffers_initialized,
                  initialization_posted, resizing, resize_mutex >>
  /\ UNCHANGED << req_w, req_h, first_frame, zi, current_display_seq, envvars, cvars, poll_cold, epoch_clean, tasks >>
  /\ RenderHistory

\* lines 282-284: one store per slot.
Resize_Invalidate ==
  /\ rpc = "z_invalidate"
  /\ flutter_textures_valid' = [flutter_textures_valid EXCEPT ![zi] = FALSE]
  /\ IF zi + 1 < NUM_BUFFERS
       THEN zi' = zi + 1 /\ rpc' = "z_invalidate"
       ELSE zi' = 0 /\ rpc' = "z_initialized"
  /\ UNCHANGED << seq, render_sync, egl_image, fbo, flutter_textures,
                  producer_seq, display_seq, consumer_seq,
                  write_index, current_width, current_height, buffers_initialized,
                  initialization_posted, resizing, resize_mutex >>
  /\ UNCHANGED << req_w, req_h, first_frame, current_display_seq, envvars, cvars, poll_cold, epoch_clean, tasks >>
  /\ RenderHistory

\* line 287
Resize_Initialized ==
  /\ rpc = "z_initialized"
  /\ buffers_initialized' = TRUE
  /\ rpc' = "z_width"
  /\ UNCHANGED << seq, render_sync, egl_image, fbo, flutter_textures,
                  flutter_textures_valid, producer_seq, display_seq, consumer_seq,
                  write_index, current_width, current_height,
                  initialization_posted, resizing, resize_mutex >>
  /\ UNCHANGED << req_w, req_h, first_frame, zi, current_display_seq, envvars, cvars, poll_cold, epoch_clean, tasks >>
  /\ RenderHistory

\* The store of the width with the height.
Resize_Width_swapped ==
  /\ rpc = "z_width"
  /\ current_width' = req_h
  /\ rpc' = "z_height"
  /\ UNCHANGED << seq, render_sync, egl_image, fbo, flutter_textures,
                  flutter_textures_valid, producer_seq, display_seq, consumer_seq,
                  write_index, current_height, buffers_initialized,
                  initialization_posted, resizing, resize_mutex >>
  /\ UNCHANGED << req_w, req_h, first_frame, zi, current_display_seq, envvars, cvars, poll_cold, epoch_clean, tasks >>
  /\ RenderHistory

\* line 288
Resize_Width ==
  /\ rpc = "z_width"
  /\ current_width' = req_w
  /\ rpc' = "z_height"
  /\ UNCHANGED << seq, render_sync, egl_image, fbo, flutter_textures,
                  flutter_textures_valid, producer_seq, display_seq, consumer_seq,
                  write_index, current_height, buffers_initialized,
                  initialization_posted, resizing, resize_mutex >>
  /\ UNCHANGED << req_w, req_h, first_frame, zi, current_display_seq, envvars, cvars, poll_cold, epoch_clean, tasks >>
  /\ RenderHistory

\* line 289
Resize_Height ==
  /\ rpc = "z_height"
  /\ current_height' = req_h
  /\ rpc' = "z_unlock"
  /\ UNCHANGED << seq, render_sync, egl_image, fbo, flutter_textures,
                  flutter_textures_valid, producer_seq, display_seq, consumer_seq,
                  write_index, current_width, buffers_initialized,
                  initialization_posted, resizing, resize_mutex >>
  /\ UNCHANGED << req_w, req_h, first_frame, zi, current_display_seq, envvars, cvars, poll_cold, epoch_clean, tasks >>
  /\ RenderHistory

\* line 291
Resize_Unlock ==
  /\ rpc = "z_unlock"
  /\ resize_mutex' = "free"
  /\ rpc' = "z_clear_resizing"
  /\ UNCHANGED << seq, render_sync, egl_image, fbo, flutter_textures,
                  flutter_textures_valid, producer_seq, display_seq, consumer_seq,
                  write_index, current_width, current_height, buffers_initialized,
                  initialization_posted, resizing >>
  /\ UNCHANGED << req_w, req_h, first_frame, zi, current_display_seq, envvars, cvars, poll_cold, epoch_clean, tasks >>
  /\ RenderHistory

\* line 292, and the return to the render task.
Resize_ClearResizing ==
  /\ rpc = "z_clear_resizing"
  /\ resizing' = FALSE
  /\ rpc' = "render"
  /\ epoch_clean' = TRUE
  /\ UNCHANGED << seq, render_sync, egl_image, fbo, flutter_textures,
                  flutter_textures_valid, producer_seq, display_seq, consumer_seq,
                  write_index, current_width, current_height, buffers_initialized,
                  initialization_posted, resize_mutex >>
  /\ ResizeReturns
  /\ UNCHANGED << current_display_seq, envvars, cvars, poll_cold, tasks >>
  /\ RenderHistory

\* The scan that takes the first slot that is not the displayed one.
RECURSIVE SelectScan_first(_, _, _, _, _)
SelectScan_first(i, best, min_seq, cds, s) ==
  IF i = NUM_BUFFERS THEN best
  ELSE IF s[i] = cds /\ cds # 0
         THEN SelectScan_first(i + 1, best, min_seq, cds, s)
       ELSE IF best = -1
         THEN SelectScan_first(i + 1, i, s[i], cds, s)
       ELSE SelectScan_first(i + 1, best, min_seq, cds, s)

\* select_write_buffer, lines 302-310: the scan for the smallest seq.
RECURSIVE SelectScan(_, _, _, _, _)
SelectScan(i, best, min_seq, cds, s) ==
  IF i = NUM_BUFFERS THEN best
  ELSE IF s[i] = cds /\ cds # 0
         THEN SelectScan(i + 1, best, min_seq, cds, s)
       ELSE IF s[i] < min_seq
         THEN SelectScan(i + 1, i, s[i], cds, s)
       ELSE SelectScan(i + 1, best, min_seq, cds, s)

\* select_write_buffer, lines 316-324: the second scan.
RECURSIVE SelectFallback(_, _, _)
SelectFallback(i, cds, s) ==
  IF i = NUM_BUFFERS THEN -1
  ELSE IF s[i] # cds \/ cds = 0 THEN i
  ELSE SelectFallback(i + 1, cds, s)

\* The scan without the test of line 305.
select_write_buffer_unprotected(cds, s) ==
  SelectScan(0, -1, UINT64_MAX, 0, s)

\* select_write_buffer, lines 297-327, on cds, the current_display_seq it
\* loaded, and s, the slots' seqs.
select_write_buffer(cds, s) ==
  LET best == SelectScan(0, -1, UINT64_MAX, cds, s)
  IN  IF best = -1 THEN SelectFallback(0, cds, s) ELSE best

\* texture_gl_render, lines 329-337, and select_write_buffer, line 298:
\* return FALSE without a render context, otherwise load display_seq.  A
\* task whose render returns FALSE ends without texture_gl_swap_buffers.
Render_LoadDisplay ==
  /\ rpc = "render"
  /\ IF render_context
       THEN rpc' = "r_select" /\ current_display_seq' = display_seq
       ELSE rpc' = "idle" /\ UNCHANGED current_display_seq
  /\ UNCHANGED << req_w, req_h, first_frame, zi, texvars, envvars, cvars,
                  poll_cold, epoch_clean, tasks >>
  /\ RenderHistory

\* select_write_buffer, lines 299-326, and texture_gl_render, lines 341-353:
\* pick the write slot on the display_seq loaded at line 298.  The slot seqs
\* are written by the render thread only.
Render_Select ==
  /\ rpc = "r_select"
  /\ LET write_idx == select_write_buffer(current_display_seq, seq)
     IN  IF write_idx < 0
           THEN rpc' = "idle" /\ UNCHANGED write_index
           ELSE /\ write_index' = write_idx
                /\ rpc' = IF fbo[write_idx] = 0 THEN "idle" ELSE "r_destroy_sync"
  /\ current_display_seq' = 0
  /\ UNCHANGED << seq, render_sync, egl_image, fbo, flutter_textures,
                  flutter_textures_valid, producer_seq, display_seq, consumer_seq,
                  current_width, current_height, buffers_initialized,
                  initialization_posted, resizing, resize_mutex >>
  /\ UNCHANGED << req_w, req_h, first_frame, zi, envvars, cvars, poll_cold, epoch_clean, tasks >>
  /\ RenderHistory

\* lines 356-359
Render_DestroySync ==
  /\ rpc = "r_destroy_sync"
  /\ render_sync' = [render_sync EXCEPT ![write_index] = EGL_NO_SYNC_KHR]
  /\ rpc' = "r_mpv"
  /\ UNCHANGED << seq, egl_image, fbo, flutter_textures,
                  flutter_textures_valid, producer_seq, display_seq, consumer_seq,
                  write_index, current_width, current_height, buffers_initialized,
                  initialization_posted, resizing, resize_mutex >>
  /\ UNCHANGED << req_w, req_h, first_frame, zi, current_display_seq, envvars, cvars, poll_cold, epoch_clean, tasks >>
  /\ RenderHistory

\* lines 361-384: the decoder's render commands for the slot are submitted.
\* mpv_render_context_render returns an error code (negative on failure);
\* line 378 calls it as a statement and drops the value.
Render_Mpv ==
  /\ rpc = "r_mpv"
  /\ gpu_queue' = Append(Remove(gpu_queue, write_index), write_index)
  /\ \E err \in BOOLEAN : render_error' = err
  /\ rpc' = "r_create_sync"
  /\ UNCHANGED << texvars, flutter_backing, render_context >>
  /\ UNCHANGED << req_w, req_h, first_frame, zi, current_display_seq, render_context, cvars, poll_cold, epoch_clean, tasks >>
  /\ RenderQuiet

\* line 388, return TRUE.  The handle eglCreateSyncKHR returns is named by
\* the seq its frame receives at line 398, so that the fences of different
\* frames are different handles.
Render_CreateSync ==
  /\ rpc = "r_create_sync"
  /\ render_sync' = [render_sync EXCEPT ![write_index] = producer_seq]
  /\ rpc' = "swap"
  /\ UNCHANGED << seq, egl_image, fbo, flutter_textures,
                  flutter_textures_valid, producer_seq, display_seq, consumer_seq,
                  write_index, current_width, current_height, buffers_initialized,
                  initialization_posted, resizing, resize_mutex >>
  /\ UNCHANGED << req_w, req_h, first_frame, zi, current_display_seq, envvars, cvars, poll_cold, epoch_clean, tasks >>
  /\ RenderHistory

\* The store of the seq with a load of producer_seq instead of fetch_add.
texture_gl_swap_buffers_load ==
  /\ rpc = "swap"
  /\ producer_seq' = producer_seq
  /\ seq' = [seq EXCEPT ![write_index] = producer_seq]
  /\ rpc' = "idle"
  /\ poll_cold' = FALSE
  /\ epoch_clean' = FALSE
  /\ UNCHANGED << render_sync, egl_image, fbo, flutter_textures,
                  flutter_textures_valid, display_seq, consumer_seq,
                  write_index, current_width, current_height, buffers_initialized,
                  initialization_posted, resizing, resize_mutex >>
  /\ UNCHANGED << req_w, req_h, first_frame, zi, current_display_seq, envvars, cvars, tasks >>
  /\ render_error' = FALSE
  /\ RenderQuiet

\* texture_gl_swap_buffers, lines 398-402.  producer_seq is touched by the
\* render thread only; the store of the slot's seq is the shared access.
texture_gl_swap_buffers ==
  /\ rpc = "swap"
  /\ producer_seq' = producer_seq + 1
  /\ seq' = [seq EXCEPT ![write_index] = producer_seq]
  /\ rpc' = "idle"
  /\ poll_cold' = FALSE
  /\ epoch_clean' = FALSE
  /\ UNCHANGED << render_sync, egl_image, fbo, flutter_textures,
                  flutter_textures_valid, display_seq, consumer_seq,
                  write_index, current_width, current_height, buffers_initialized,
                  initialization_posted, resizing, resize_mutex >>
  /\ UNCHANGED << req_w, req_h, first_frame, zi, current_display_seq, envvars, cvars, tasks >>
  /\ render_error' = FALSE
  /\ RenderQuiet

\* The GPU completes the oldest submitted render.
GpuComplete ==
  /\ gpu_queue # << >>
  /\ gpu_queue' = Tail(gpu_queue)
  /\ UNCHANGED << texvars, flutter_backing, render_context, rvars, cvars, poll_cold, epoch_clean, tasks >>
  /\ RenderHistory

RenderStep ==
  \/ \E sz \in VideoSizes : TaskStart(sz[1], sz[2])
  \/ Resize_Check
  \/ Resize_SetResizing
  \/ Resize_Lock
  \/ Resize_WaitSync
  \/ Resize_Destroy
  \/ Resize_Create
  \/ Resize_ResetSeq
  \/ Resize_ResetProducer
  \/ Resize_ResetDisplay
  \/ Resize_ResetConsumer
  \/ Resize_Invalidate
  \/ Resize_Initialized
  \/ Resize_Width
  \/ Resize_Height
  \/ Resize_Unlock
  \/ Resize_ClearResizing
  \/ Render_LoadDisplay
  \/ Render_Select
  \/ Render_DestroySync
  \/ Render_Mpv
  \/ Render_CreateSync
  \/ texture_gl_swap_buffers

(***************************************************************************)
(* Host thread: texture_gl_populate_texture                                *)
(***************************************************************************)

\* What no step of the atomic poll changes besides its own history.
hostrest == << dbvars, render_error, seen_sync >>

HostTex == << seq, egl_image, fbo, producer_seq, write_index, current_width,
              current_height, buffers_initialized, resizing, resize_mutex >>

\* texture_gl_populate_texture returns: its locals are gone.
PopulateReturns ==
  /\ cpc' = "idle"
  /\ best_idx' = -1 /\ best_seq' = 0 /\ ci' = 0 /\ buf_seq' = 0
  /\ display_idx' = -1 /\ max_seq' = 0 /\ selected_seq' = 0
  /\ out_w' = 0
  /\ best_fence' = "none"
  /\ poll_quiet' = FALSE
  /\ poll_cold' = FALSE
  /\ entry_posted' = FALSE
  /\ no_candidate' = FALSE
  /\ read_fresh' = FALSE

\* The result of a poll that hands out slot d, and the 1x1 dummy texture.
SlotRet(d, w, h) == [kind |-> "slot", idx |-> d, name |-> flutter_textures[d],
                     w |-> w, h |-> h, ok |-> TRUE]
DummyRet == [kind |-> "dummy", idx |-> 0, name |-> DummyName, w |-> 1, h |-> 1,
             ok |-> TRUE]

\* lines 408-428: the first poll asks for the pool to be initialized.
\* dims_known: video_output_get_width/height are positive and a render
\* thread exists.  The host thread has finished with the texture the
\* previous call returned.
Populate_Begin(dims_known) ==
  /\ cpc = "idle"
  /\ UNCHANGED hostrest
  /\ initialization_posted' =
       IF ~initialization_posted /\ ~buffers_initialized /\ dims_known
         THEN TRUE ELSE initialization_posted
  /\ cpc' = "check_resizing"
  /\ entry_posted' = initialization_posted
  /\ poll_quiet' = (rpc = "idle" /\ gpu_queue = << >>)
  /\ poll_cold' = (\A i \in Slots : seq[i] = 0)
  /\ UNCHANGED << HostTex, render_sync, flutter_textures, flutter_textures_valid,
                  display_seq, consumer_seq >>
  /\ UNCHANGED << envvars, rvars, glvars, vovars, best_idx, best_seq, ci, buf_seq, display_idx,
                  max_seq, selected_seq, out_w, best_fence, epoch_clean, tasks,
                  no_candidate, read_fresh >>
  /\ ret' = NoRet

\* The early return with the pool's size instead of 1x1.
Populate_Resizing_poolsize ==
  /\ cpc = "check_resizing"
  /\ UNCHANGED hostrest
  /\ resizing
  /\ ret' = [DummyRet EXCEPT !.w = current_width, !.h = current_height]
  /\ PopulateReturns
  /\ UNCHANGED << texvars, envvars, rvars, glvars, vovars, epoch_clean, tasks >>

\* lines 431-444: a resize is in progress, return the 1x1 dummy texture.
Populate_Resizing ==
  /\ cpc = "check_resizing"
  /\ UNCHANGED hostrest
  /\ resizing
  /\ ret' = DummyRet
  /\ PopulateReturns
  /\ UNCHANGED << texvars, envvars, rvars, glvars, vovars, epoch_clean, tasks >>

\* line 431, resizing is FALSE.
Populate_NotResizing ==
  /\ cpc = "check_resizing"
  /\ UNCHANGED hostrest
  /\ ~resizing
  /\ cpc' = "load_consumer_seq"
  /\ UNCHANGED << texvars, envvars, rvars, glvars, vovars, best_idx, best_seq, ci, buf_seq,
                  display_idx, max_seq, selected_seq, out_w, ret, best_fence, poll_quiet,
                  poll_cold, epoch_clean, tasks, no_candidate, read_fresh >>
  /\ entry_posted' = FALSE

\* lines 448-449
Populate_LoadConsumerSeq ==
  /\ cpc = "load_consumer_seq"
  /\ best_idx' = -1
  /\ best_seq' = consumer_seq
  /\ ci' = 0
  /\ cpc' = "scan_seq"
  /\ UNCHANGED << texvars, envvars, rvars, glvars, vovars, buf_seq, display_idx, max_seq,
                  selected_seq, out_w, ret, hvars >>

\* texture_gl_render has destroyed the fence of slot i's last published frame
\* (lines 356-359) and has not yet published the frame it renders into the
\* slot: the slot's seq is that of a frame that is being overwritten.
Rewritten(i) == write_index = i /\ rpc \in {"r_mpv", "r_create_sync", "swap"}

\* The scan with the test for a published frame instead of a newer one.
Populate_ScanSeq_any ==
  /\ cpc = "scan_seq"
  /\ IF seq[ci] > 0
       THEN cpc' = "scan_sync" /\ buf_seq' = seq[ci] /\ UNCHANGED ci
       ELSE /\ ci' = ci + 1
            /\ buf_seq' = 0
            /\ cpc' = IF ci + 1 < NUM_BUFFERS THEN "scan_seq" ELSE "accept"
  /\ read_fresh' = (seq[ci] > 0 /\ ~Rewritten(ci))
  /\ UNCHANGED << texvars, envvars, rvars, glvars, vovars, best_idx, best_seq, display_idx,
                  max_seq, selected_seq, out_w, ret, best_fence, poll_quiet, poll_cold, entry_posted, epoch_clean, tasks,
                  dbvars, render_error, no_candidate, seen_sync >>

\* lines 451-453: load the slot's seq.
Populate_ScanSeq ==
  /\ cpc = "scan_seq"
  /\ IF seq[ci] > best_seq
       THEN cpc' = "scan_sync" /\ buf_seq' = seq[ci] /\ UNCHANGED ci
       ELSE /\ ci' = ci + 1
            /\ buf_seq' = 0
            /\ cpc' = IF ci + 1 < NUM_BUFFERS THEN "scan_seq" ELSE "accept"
  /\ read_fresh' = (seq[ci] > best_seq /\ ~Rewritten(ci))
  /\ UNCHANGED << texvars, envvars, rvars, glvars, vovars, best_idx, best_seq, display_idx,
                  max_seq, selected_seq, out_w, ret, best_fence, poll_quiet, poll_cold, entry_posted, epoch_clean, tasks,
                  dbvars, render_error, no_candidate, seen_sync >>

\* What a poll that takes slot i as its candidate found at the slot's fence:
\*   "signaled"  the fence of the frame whose seq it loaded, signaled;
\*   "rewriting" no handle, the render thread has destroyed it and is
\*               rendering the next frame into the slot;
\*   "absent"    no handle otherwise;
\*   "other"     the fence of a newer frame than the seq it loaded.
FenceFound(i) ==
  IF render_sync[i] = EGL_NO_SYNC_KHR
    THEN IF rpc \in {"r_mpv", "r_create_sync"} /\ write_index = i
           THEN "rewriting" ELSE "absent"
    ELSE IF seq[i] = buf_seq /\ ~(rpc = "swap" /\ write_index = i)
           THEN "signaled" ELSE "other"

\* The fence check with a wait that blocks until the fence signals.
Populate_ScanSync_blocking ==
  /\ cpc = "scan_sync"
  /\ UNCHANGED hostrest
  /\ render_sync[ci] # EGL_NO_SYNC_KHR => Signaled(ci)
  /\ render_sync' = [render_sync EXCEPT ![ci] = EGL_NO_SYNC_KHR]
  /\ best_seq' = buf_seq
  /\ best_idx' = ci
  /\ best_fence' = FenceFound(ci)
  /\ ci' = ci + 1
  /\ buf_seq' = 0
  /\ cpc' = IF ci + 1 < NUM_BUFFERS THEN "scan_seq" ELSE "accept"
  /\ UNCHANGED << HostTex, flutter_textures, flutter_textures_valid,
                  initialization_posted, display_seq, consumer_seq >>
  /\ UNCHANGED << envvars, rvars, glvars, vovars, display_idx, max_seq, selected_seq,
                  out_w, ret, poll_quiet, poll_cold, entry_posted, epoch_clean, tasks,
                  no_candidate >>
  /\ read_fresh' = FALSE

\* lines 456-473: non-blocking wait (timeout 0) on the slot's fence.
Populate_ScanSync ==
  /\ cpc = "scan_sync"
  /\ UNCHANGED hostrest
  /\ LET has_sync == render_sync[ci] # EGL_NO_SYNC_KHR
         render_complete == ~has_sync \/ Signaled(ci)
     IN  /\ render_sync' = IF has_sync /\ Signaled(ci)
                             THEN [render_sync EXCEPT ![ci] = EGL_NO_SYNC_KHR]
                             ELSE render_sync
         /\ IF render_complete
              THEN /\ best_seq' = buf_seq
                   /\ best_idx' = ci
                   /\ best_fence' = FenceFound(ci)
              ELSE UNCHANGED << best_seq, best_idx, best_fence >>
  /\ ci' = ci + 1
  /\ buf_seq' = 0
  /\ cpc' = IF ci + 1 < NUM_BUFFERS THEN "scan_seq" ELSE "accept"
  /\ UNCHANGED << HostTex, flutter_textures, flutter_textures_valid,
                  initialization_posted, display_seq, consumer_seq >>
  /\ UNCHANGED << envvars, rvars, glvars, vovars, display_idx, max_seq, selected_seq,
                  out_w, ret, poll_quiet, poll_cold, entry_posted, epoch_clean, tasks,
                  no_candidate >>
  /\ read_fresh' = FALSE

\* lines 477-486: accept the candidate, or start the search for the slot
\* with the highest seq.
Populate_Accept ==
  /\ cpc = "accept"
  /\ UNCHANGED hostrest
  /\ consumer_seq' = IF best_idx >= 0 THEN best_seq ELSE consumer_seq
  /\ display_idx' = best_idx
  /\ best_idx' = -1 /\ best_seq' = 0 /\ best_fence' = "none"
  /\ no_candidate' = (best_idx < 0)
  /\ UNCHANGED read_fresh
  /\ max_seq' = 0
  /\ ci' = 0
  /\ cpc' = IF best_idx >= 0 THEN "load_selected" ELSE "fallback_scan"
  /\ UNCHANGED << HostTex, render_sync, flutter_textures, flutter_textures_valid,
                  initialization_posted, display_seq >>
  /\ UNCHANGED << envvars, rvars, glvars, vovars, buf_seq, selected_seq, out_w, ret,
                  poll_quiet, poll_cold, entry_posted, epoch_clean, tasks >>

\* lines 487-499: one load per slot; buffer 0 when every seq is 0.
Populate_FallbackScan ==
  /\ cpc = "fallback_scan"
  /\ LET found == seq[ci] > max_seq
         d == IF found THEN ci ELSE display_idx
     IN  IF ci + 1 < NUM_BUFFERS
           THEN /\ ci' = ci + 1
                /\ display_idx' = d
                /\ max_seq' = IF found THEN seq[ci] ELSE max_seq
                /\ cpc' = "fallback_scan"
           ELSE /\ ci' = 0
                /\ display_idx' = IF d < 0 THEN 0 ELSE d
                /\ max_seq' = 0
                /\ cpc' = "load_selected"
  /\ UNCHANGED << texvars, envvars, rvars, glvars, vovars, best_idx, best_seq, buf_seq,
                  selected_seq, out_w, ret, hvars >>

\* line 502
Populate_LoadSelected ==
  /\ cpc = "load_selected"
  /\ selected_seq' = seq[display_idx]
  /\ cpc' = "store_display"
  /\ UNCHANGED << texvars, envvars, rvars, glvars, vovars, best_idx, best_seq, ci, buf_seq,
                  display_idx, max_seq, out_w, ret, hvars >>

\* lines 503-505
Populate_StoreDisplay ==
  /\ cpc = "store_display"
  /\ display_seq' = IF selected_seq > 0 THEN selected_seq ELSE display_seq
  /\ selected_seq' = 0
  /\ cpc' = "bind_check"
  /\ UNCHANGED << HostTex, render_sync, flutter_textures, flutter_textures_valid,
                  initialization_posted, consumer_seq >>
  /\ UNCHANGED << envvars, rvars, glvars, vovars, best_idx, best_seq, ci, buf_seq,
                  display_idx, max_seq, out_w, ret, hvars >>

\* line 510, first operand
Populate_BindCheckValid ==
  /\ cpc = "bind_check"
  /\ cpc' = IF flutter_textures_valid[display_idx] THEN "out" ELSE "bind_check_image"
  /\ UNCHANGED << texvars, envvars, rvars, glvars, vovars, best_idx, best_seq, ci, buf_seq,
                  display_idx, max_seq, selected_seq, out_w, ret, hvars >>

\* line 510, second operand
Populate_BindCheckImage ==
  /\ cpc = "bind_check_image"
  /\ cpc' = IF egl_image[display_idx] # EGL_NO_IMAGE_KHR THEN "bind" ELSE "out"
  /\ UNCHANGED << texvars, envvars, rvars, glvars, vovars, best_idx, best_seq, ci, buf_seq,
                  display_idx, max_seq, selected_seq, out_w, ret, hvars >>

\* lines 511-524: a fresh host texture bound to the slot's image as read at
\* line 523.
Populate_Bind ==
  /\ cpc = "bind"
  /\ flutter_textures' = [flutter_textures EXCEPT ![display_idx] = TextureName(display_idx)]
  /\ flutter_backing' = [flutter_backing EXCEPT ![display_idx] =
                           IF egl_image[display_idx] # EGL_NO_IMAGE_KHR
                             THEN "live" ELSE "none"]
  /\ cpc' = "bind_valid"
  /\ UNCHANGED << HostTex, render_sync, flutter_textures_valid,
                  initialization_posted, display_seq, consumer_seq >>
  /\ UNCHANGED << gpu_queue, render_context, rvars, glvars, vovars, best_idx, best_seq, ci, buf_seq,
                  display_idx, max_seq, selected_seq, out_w, ret, hvars >>

\* lines 526-529
Populate_BindValid ==
  /\ cpc = "bind_valid"
  /\ flutter_textures_valid' = [flutter_textures_valid EXCEPT ![display_idx] = TRUE]
  /\ cpc' = "out"
  /\ UNCHANGED << HostTex, render_sync, flutter_textures,
                  initialization_posted, display_seq, consumer_seq >>
  /\ UNCHANGED << envvars, rvars, glvars, vovars, best_idx, best_seq, ci, buf_seq,
                  display_idx, max_seq, selected_seq, out_w, ret, hvars >>

\* lines 532-534
Populate_OutWidth ==
  /\ cpc = "out"
  /\ out_w' = current_width
  /\ cpc' = "out_height"
  /\ UNCHANGED << texvars, envvars, rvars, glvars, vovars, best_idx, best_seq, ci, buf_seq,
                  display_idx, max_seq, selected_seq, ret, hvars >>

\* lines 535-551
Populate_Return ==
  /\ cpc = "out_height"
  /\ UNCHANGED hostrest
  /\ ret' = IF ~flutter_textures_valid[display_idx] \/ flutter_textures[display_idx] = 0
              THEN DummyRet
              ELSE SlotRet(display_idx, out_w, current_height)
  /\ PopulateReturns
  /\ UNCHANGED << texvars, envvars, rvars, glvars, vovars, epoch_clean, tasks >>

HostStep ==
  \/ \E dims_known \in BOOLEAN : Populate_Begin(dims_known)
  \/ Populate_Resizing
  \/ Populate_NotResizing
  \/ Populate_LoadConsumerSeq
  \/ Populate_ScanSeq
  \/ Populate_ScanSync
  \/ Populate_Accept
  \/ Populate_FallbackScan
  \/ Populate_LoadSelected
  \/ Populate_StoreDisplay
  \/ Populate_BindCheckValid
  \/ Populate_BindCheckImage
  \/ Populate_Bind
  \/ Populate_BindValid
  \/ Populate_OutWidth
  \/ Populate_Return

Next == RenderStep \/ GpuComplete \/ HostStep

Spec == Init /\ [][Next]_vars

(***************************************************************************)
(* The poll's accesses to buffers[i].render_sync, one at a time.  The      *)
(* field is a plain EGLSyncKHR, read and written by the render thread      *)
(* (lines 222-225, 356-358, 388) and by the host thread (lines 458-466)    *)
(* with no lock and no atomic.                                             *)
(***************************************************************************)

\* line 458: the test of the field.  Without a handle the slot counts as
\* complete (lines 470-473).
Populate_ReadSync ==
  /\ cpc = "scan_sync"
  /\ IF render_sync[ci] = EGL_NO_SYNC_KHR
       THEN /\ best_seq' = buf_seq
            /\ best_idx' = ci
            /\ best_fence' = FenceFound(ci)
            /\ ci' = ci + 1
            /\ buf_seq' = 0
            /\ cpc' = IF ci + 1 < NUM_BUFFERS THEN "scan_seq" ELSE "accept"
            /\ read_fresh' = FALSE
            /\ UNCHANGED seen_sync
       ELSE /\ seen_sync' = render_sync[ci]
            /\ cpc' = "scan_wait"
            /\ UNCHANGED << best_seq, best_idx, best_fence, ci, buf_seq, read_fresh >>
  /\ UNCHANGED << texvars, envvars, rvars, glvars, vovars, display_idx, max_seq,
                  selected_seq, out_w, ret, poll_quiet, poll_cold, entry_posted,
                  epoch_clean, tasks, dbvars, render_error, no_candidate >>

\* lines 459-467: eglClientWaitSyncKHR with timeout 0 on the field's handle,
\* and unless it timed out eglDestroySyncKHR and the store of
\* EGL_NO_SYNC_KHR.  A wait on EGL_NO_SYNC_KHR returns EGL_FALSE, which is
\* not EGL_TIMEOUT_EXPIRED_KHR.
Populate_WaitSync ==
  /\ cpc = "scan_wait"
  /\ LET timeout == render_sync[ci] # EGL_NO_SYNC_KHR /\ ~Signaled(ci)
     IN  /\ render_sync' = IF timeout THEN render_sync
                            ELSE [render_sync EXCEPT ![ci] = EGL_NO_SYNC_KHR]
         /\ IF timeout
              THEN UNCHANGED << best_seq, best_idx, best_fence >>
              ELSE /\ best_seq' = buf_seq
                   /\ best_idx' = ci
                   /\ best_fence' = FenceFound(ci)
  /\ seen_sync' = EGL_NO_SYNC_KHR
  /\ read_fresh' = FALSE
  /\ ci' = ci + 1
  /\ buf_seq' = 0
  /\ cpc' = IF ci + 1 < NUM_BUFFERS THEN "scan_seq" ELSE "accept"
  /\ UNCHANGED << HostTex, flutter_textures, flutter_textures_valid,
                  initialization_posted, display_seq, consumer_seq >>
  /\ UNCHANGED << envvars, rvars, glvars, vovars, display_idx, max_seq, selected_seq,
                  out_w, ret, poll_quiet, poll_cold, entry_posted, epoch_clean, tasks,
                  dbvars, render_error, no_candidate >>

HostStepFence ==
  \/ \E dims_known \in BOOLEAN : Populate_Begin(dims_known)
  \/ Populate_Resizing
  \/ Populate_NotResizing
  \/ Populate_LoadConsumerSeq
  \/ Populate_ScanSeq
  \/ Populate_ReadSync
  \/ Populate_WaitSync
  \/ Populate_Accept
  \/ Populate_FallbackScan
  \/ Populate_LoadSelected
  \/ Populate_StoreDisplay
  \/ Populate_BindCheckValid
  \/ Populate_BindCheckImage
  \/ Populate_Bind
  \/ Populate_BindValid
  \/ Populate_OutWidth
  \/ Populate_Return

NextFence == RenderStep \/ GpuComplete \/ HostStepFence

SpecFence == Init /\ [][NextFence]_vars

(***************************************************************************)
(* GLRenderThread: one step per access to stop_, mutex_, cv_ or tasks_.    *)
(* Only the worker waits on cv_; a notification reaches it only while it   *)
(* is blocked in cv_.wait.                                                 *)
(***************************************************************************)

\* GLRenderThread::IsCurrentThread
IsCurrentThread(t) == thread_id_ = t

\* cv_.notify_one() or cv_.notify_all() while thread t moves to position p.
Notify(t, p) ==
  pc' = [x \in Threads |->
           IF x = t THEN p
           ELSE IF x = Worker /\ pc[Worker] = "waiting" THEN "wake"
           ELSE pc[x]]

\* Where a thread continues after the call it made returns: a host thread
\* is idle again, the worker is back in the body of the task it is running.
Continue(t) == IF t = Worker THEN "body_end" ELSE "idle"

\* A call of thread t returns r.
Return(t, r) ==
  /\ pc' = [pc EXCEPT ![t] = Continue(t)]
  /\ res' = [res EXCEPT ![t] = r]

\* A new task of kind k; a task that posts another one reserves its id.
NewTask(k) ==
  /\ next_id + (IF k = "plain" THEN 0 ELSE 1) <= MaxPosts
  /\ kind' = [i \in TaskIds |->
                IF i = next_id THEN k
                ELSE IF k # "plain" /\ i = next_id + 1 THEN "plain"
                ELSE kind[i]]
  /\ next_id' = next_id + (IF k = "plain" THEN 1 ELSE 2)

\* A host thread calls Post(task).
CallPost(h, k) ==
  /\ pc[h] = "idle" /\ destroyed = "no"
  /\ NewTask(k)
  /\ pc' = [pc EXCEPT ![h] = "p_check1"]
  /\ op' = [op EXCEPT ![h] = "Post"]
  /\ arg' = [arg EXCEPT ![h] = next_id]
  /\ res' = [res EXCEPT ![h] = "none"]
  /\ UNCHANGED << glshared, task, waiter, done, accepted, executed, completed,
                  inlined, rejected, shutdown_returned, stale_notify, destroyed,
                  texall, vovars >>

\* A host thread calls PostAndWait(task); `done` starts false (line 57).
CallPostAndWait(h, k) ==
  /\ pc[h] = "idle" /\ destroyed = "no"
  /\ NewTask(k)
  /\ pc' = [pc EXCEPT ![h] = "pw_check"]
  /\ op' = [op EXCEPT ![h] = "PostAndWait"]
  /\ arg' = [arg EXCEPT ![h] = next_id]
  /\ res' = [res EXCEPT ![h] = "none"]
  /\ done' = [done EXCEPT ![h] = FALSE]
  /\ UNCHANGED << glshared, task, waiter, accepted, executed, completed,
                  inlined, rejected, shutdown_returned, stale_notify, destroyed,
                  texall, vovars >>

\* A host thread calls RequestShutdown.
CallRequestShutdown(h) ==
  /\ pc[h] = "idle" /\ destroyed = "no"
  /\ pc' = [pc EXCEPT ![h] = "rs_store"]
  /\ op' = [op EXCEPT ![h] = "RequestShutdown"]
  /\ arg' = [arg EXCEPT ![h] = 0]
  /\ res' = [res EXCEPT ![h] = "none"]
  /\ UNCHANGED << glshared, task, waiter, done, glhist, texall, vovars >>

\* The owner destroys the GLRenderThread once no other thread is inside it:
\* the destructor starts with RequestShutdown.
CallDestructor(h) ==
  /\ destroyed = "no"
  /\ \A x \in Hosts : pc[x] = "idle"
  /\ destroyed' = "destroying"
  /\ pc' = [pc EXCEPT ![h] = "rs_store"]
  /\ op' = [op EXCEPT ![h] = "~GLRenderThread"]
  /\ arg' = [arg EXCEPT ![h] = 0]
  /\ res' = [res EXCEPT ![h] = "none"]
  /\ UNCHANGED << glshared, task, waiter, done, kind, next_id, accepted,
                  executed, completed, inlined, rejected, shutdown_returned,
                  stale_notify, texall, vovars >>

\* Post, line 29: the check of stop_ without the mutex.
Post_Check(t) ==
  /\ pc[t] = "p_check1"
  /\ IF stop_
       THEN /\ Return(t, "false")
            /\ rejected' = rejected \cup {arg[t]}
       ELSE /\ pc' = [pc EXCEPT ![t] = "p_lock"]
            /\ UNCHANGED << res, rejected >>
  /\ UNCHANGED << glshared, op, arg, task, waiter, done, kind, next_id,
                  accepted, executed, completed, inlined, shutdown_returned,
                  stale_notify, destroyed, texall, vovars >>

\* Post, line 34: std::lock_guard lock(mutex_).
Post_Lock(t) ==
  /\ pc[t] = "p_lock"
  /\ mutex_ = "free"
  /\ mutex_' = t
  /\ pc' = [pc EXCEPT ![t] = "p_push"]
  /\ UNCHANGED << stop_, running_, tasks_, thread_id_, op, arg, res, task,
                  waiter, done, glhist, texall, vovars >>

\* Post without the check of stop_ under the mutex.
Post_Push_unchecked(t) ==
  /\ pc[t] = "p_push"
  /\ mutex_' = "free"
  /\ tasks_' = Append(tasks_, arg[t])
  /\ accepted' = Append(accepted, arg[t])
  /\ pc' = [pc EXCEPT ![t] = "p_notify"]
  /\ UNCHANGED << res, rejected >>
  /\ UNCHANGED << stop_, running_, thread_id_, op, arg, task, waiter, done,
                  kind, next_id, executed, completed, inlined,
                  shutdown_returned, stale_notify, destroyed, texall, vovars >>

\* Post, lines 35-39: the check of stop_ under the mutex, the push, and the
\* release of the mutex.
Post_Push(t) ==
  /\ pc[t] = "p_push"
  /\ mutex_' = "free"
  /\ IF stop_
       THEN /\ Return(t, "false")
            /\ rejected' = rejected \cup {arg[t]}
            /\ UNCHANGED << tasks_, accepted >>
       ELSE /\ tasks_' = Append(tasks_, arg[t])
            /\ accepted' = Append(accepted, arg[t])
            /\ pc' = [pc EXCEPT ![t] = "p_notify"]
            /\ UNCHANGED << res, rejected >>
  /\ UNCHANGED << stop_, running_, thread_id_, op, arg, task, waiter, done,
                  kind, next_id, executed, completed, inlined,
                  shutdown_returned, stale_notify, destroyed, texall, vovars >>

\* Post, lines 40-41: cv_.notify_one(); return true.  Inside PostAndWait the
\* caller goes on to wait (lines 68-73).
Post_Notify(t) ==
  /\ pc[t] = "p_notify"
  /\ IF op[t] = "PostAndWait"
       THEN /\ Notify(t, "pw_wait")
            /\ UNCHANGED res
       ELSE /\ Notify(t, Continue(t))
            /\ res' = [res EXCEPT ![t] = "true"]
  /\ UNCHANGED << glshared, op, arg, task, waiter, done, glhist, texall, vovars >>

\* PostAndWait, lines 45-53: the check of stop_, then IsCurrentThread.
PostAndWait_Check(t) ==
  /\ pc[t] = "pw_check"
  /\ IF stop_
       THEN /\ Return(t, "false")
            /\ rejected' = rejected \cup {arg[t]}
       ELSE /\ pc' = [pc EXCEPT ![t] =
                        IF IsCurrentThread(t) THEN "pw_inline" ELSE "p_check1"]
            /\ UNCHANGED << res, rejected >>
  /\ UNCHANGED << glshared, op, arg, task, waiter, done, kind, next_id,
                  accepted, executed, completed, inlined, shutdown_returned,
                  stale_notify, destroyed, texall, vovars >>

\* PostAndWait, lines 51-52: task(); return true.
PostAndWait_Inline(t) ==
  /\ pc[t] = "pw_inline"
  /\ inlined' = inlined \cup {arg[t]}
  /\ completed' = completed \cup {arg[t]}
  /\ Return(t, "true")
  /\ UNCHANGED << glshared, op, arg, task, waiter, done, kind, next_id,
                  accepted, executed, rejected, shutdown_returned,
                  stale_notify, destroyed, texall, vovars >>

\* PostAndWait returning without looking at done.
PostAndWait_Wait_unchecked(t) ==
  /\ pc[t] = "pw_wait"
  /\ Return(t, "true")
  /\ UNCHANGED << glshared, op, arg, task, waiter, done, glhist, texall, vovars >>

\* PostAndWait, lines 72-74: under wait_mutex, return when done, otherwise
\* block on wait_cv.
PostAndWait_Wait(t) ==
  /\ pc[t] = "pw_wait"
  /\ IF done[t]
       THEN Return(t, "true")
       ELSE /\ pc' = [pc EXCEPT ![t] = "pw_blocked"]
            /\ UNCHANGED res
  /\ UNCHANGED << glshared, op, arg, task, waiter, done, glhist, texall, vovars >>

\* RequestShutdown, line 82: stop_.store(true), without the mutex.
RequestShutdown_Store(t) ==
  /\ pc[t] = "rs_store"
  /\ stop_' = TRUE
  /\ pc' = [pc EXCEPT ![t] = "rs_notify"]
  /\ UNCHANGED << running_, tasks_, mutex_, thread_id_, op, arg, res, task,
                  waiter, done, glhist, texall, vovars >>

\* RequestShutdown, lines 83-84: cv_.notify_all(), and the return; the
\* destructor goes on to join.
RequestShutdown_Notify(t) ==
  /\ pc[t] = "rs_notify"
  /\ IF op[t] = "~GLRenderThread"
       THEN /\ Notify(t, "join")
            /\ UNCHANGED res
       ELSE /\ Notify(t, Continue(t))
            /\ res' = [res EXCEPT ![t] = "void"]
  /\ shutdown_returned' = TRUE
  /\ UNCHANGED << glshared, op, arg, task, waiter, done, kind, next_id,
                  accepted, executed, completed, inlined, rejected,
                  stale_notify, destroyed, texall, vovars >>

\* ~GLRenderThread, lines 23-25: thread_.join() returns once Run has returned.
Destructor_Join(t) ==
  /\ pc[t] = "join"
  /\ pc[Worker] = "exited"
  /\ destroyed' = "yes"
  /\ Return(t, "void")
  /\ UNCHANGED << glshared, op, arg, task, waiter, done, kind, next_id,
                  accepted, executed, completed, inlined, rejected,
                  shutdown_returned, stale_notify, texall, vovars >>

\* Run, lines 92-96: thread_id_ and running_ under the mutex.
Run_Init ==
  /\ pc[Worker] = "run_init"
  /\ mutex_ = "free"
  /\ thread_id_' = Worker
  /\ running_' = TRUE
  /\ pc' = [pc EXCEPT ![Worker] = "run_notify"]
  /\ UNCHANGED << stop_, tasks_, mutex_, op, arg, res, task, waiter, done,
                  glhist, texall, vovars >>

\* Run, line 97: cv_.notify_all(); nobody else waits on cv_.
Run_NotifyStarted ==
  /\ pc[Worker] = "run_notify"
  /\ pc' = [pc EXCEPT ![Worker] = "lock"]
  /\ UNCHANGED << glshared, op, arg, res, task, waiter, done, glhist, texall, vovars >>

\* Run, line 104: std::unique_lock lock(mutex_).
Run_Lock ==
  /\ pc[Worker] = "lock"
  /\ mutex_ = "free"
  /\ mutex_' = Worker
  /\ pc' = [pc EXCEPT ![Worker] = "pred"]
  /\ UNCHANGED << stop_, running_, tasks_, thread_id_, op, arg, res, task,
                  waiter, done, glhist, texall, vovars >>

\* Run, lines 106-108: cv_.wait evaluates its predicate with the mutex held.
Run_Predicate ==
  /\ pc[Worker] = "pred"
  /\ pc' = [pc EXCEPT ![Worker] =
              IF stop_ \/ tasks_ # << >> THEN "take" ELSE "block"]
  /\ UNCHANGED << glshared, op, arg, res, task, waiter, done, glhist, texall, vovars >>

\* Run, line 106: the predicate was false; cv_.wait releases the mutex and
\* blocks, in one step with respect to threads that hold the mutex.
Run_Block ==
  /\ pc[Worker] = "block"
  /\ mutex_' = "free"
  /\ pc' = [pc EXCEPT ![Worker] = "waiting"]
  /\ UNCHANGED << stop_, running_, tasks_, thread_id_, op, arg, res, task,
                  waiter, done, glhist, texall, vovars >>

\* Run, line 106: a notified cv_.wait takes the mutex again and evaluates
\* the predicate again.
Run_Wake ==
  /\ pc[Worker] = "wake"
  /\ mutex_ = "free"
  /\ mutex_' = Worker
  /\ pc' = [pc EXCEPT ![Worker] = "pred"]
  /\ UNCHANGED << stop_, running_, tasks_, thread_id_, op, arg, res, task,
                  waiter, done, glhist, texall, vovars >>

\* Run taking the task at the back of the queue.
Run_Take_last ==
  /\ pc[Worker] = "take"
  /\ mutex_' = "free"
  /\ IF stop_ /\ tasks_ = << >>
       THEN /\ pc' = [pc EXCEPT ![Worker] = "leave"]
            /\ UNCHANGED << tasks_, task >>
       ELSE IF tasks_ # << >>
         THEN /\ task' = tasks_[Len(tasks_)]
              /\ tasks_' = SubSeq(tasks_, 1, Len(tasks_) - 1)
              /\ pc' = [pc EXCEPT ![Worker] = "exec"]
         ELSE /\ pc' = [pc EXCEPT ![Worker] = "lock"]
              /\ UNCHANGED << tasks_, task >>
  /\ UNCHANGED << stop_, running_, thread_id_, op, arg, res, waiter, done,
                  glhist, texall, vovars >>

\* Run leaving its loop as soon as stop_ is set.
Run_Take_nodrain ==
  /\ pc[Worker] = "take"
  /\ mutex_' = "free"
  /\ IF stop_
       THEN /\ pc' = [pc EXCEPT ![Worker] = "leave"]
            /\ UNCHANGED << tasks_, task >>
       ELSE IF tasks_ # << >>
         THEN /\ task' = Head(tasks_)
              /\ tasks_' = Tail(tasks_)
              /\ pc' = [pc EXCEPT ![Worker] = "exec"]
         ELSE /\ pc' = [pc EXCEPT ![Worker] = "lock"]
              /\ UNCHANGED << tasks_, task >>
  /\ UNCHANGED << stop_, running_, thread_id_, op, arg, res, waiter, done,
                  glhist, texall, vovars >>

\* Run, lines 110-118: break when stopped with an empty queue; otherwise
\* take the front task; release the mutex.
Run_Take ==
  /\ pc[Worker] = "take"
  /\ mutex_' = "free"
  /\ IF stop_ /\ tasks_ = << >>
       THEN /\ pc' = [pc EXCEPT ![Worker] = "leave"]
            /\ UNCHANGED << tasks_, task >>
       ELSE IF tasks_ # << >>
         THEN /\ task' = Head(tasks_)
              /\ tasks_' = Tail(tasks_)
              /\ pc' = [pc EXCEPT ![Worker] = "exec"]
         ELSE /\ pc' = [pc EXCEPT ![Worker] = "lock"]
              /\ UNCHANGED << tasks_, task >>
  /\ UNCHANGED << stop_, running_, thread_id_, op, arg, res, waiter, done,
                  glhist, texall, vovars >>

\* The PostAndWait that handed task i to Post, if any: the wrapper of lines
\* 59-66 captured its wait_mutex, wait_cv and done.
WaiterOf(i) ==
  IF \E h \in Hosts : op[h] = "PostAndWait" /\ arg[h] = i
    THEN CHOOSE h \in Hosts : op[h] = "PostAndWait" /\ arg[h] = i
    ELSE "none"

\* Where the worker continues when the body of task i has returned: in the
\* wrapper (line 61) for a PostAndWait, at the top of Run's loop otherwise.
AfterBody(i) == IF WaiterOf(i) # "none" THEN "w_done" ELSE "lock"

\* Run, lines 121-123: task() is called, outside the mutex.
Run_Exec ==
  /\ pc[Worker] = "exec"
  /\ executed' = Append(executed, task)
  /\ waiter' = WaiterOf(task)
  /\ CASE kind[task] = "post" ->
            /\ pc' = [pc EXCEPT ![Worker] = "p_check1"]
            /\ op' = [op EXCEPT ![Worker] = "Post"]
            /\ arg' = [arg EXCEPT ![Worker] = task + 1]
            /\ res' = [res EXCEPT ![Worker] = "none"]
            /\ UNCHANGED completed
       [] kind[task] = "wait" ->
            /\ pc' = [pc EXCEPT ![Worker] = "pw_check"]
            /\ op' = [op EXCEPT ![Worker] = "PostAndWait"]
            /\ arg' = [arg EXCEPT ![Worker] = task + 1]
            /\ res' = [res EXCEPT ![Worker] = "none"]
            /\ UNCHANGED completed
       [] OTHER ->
            /\ pc' = [pc EXCEPT ![Worker] = AfterBody(task)]
            /\ completed' = completed \cup {task}
            /\ UNCHANGED << op, arg, res >>
  /\ UNCHANGED << glshared, task, done, kind, next_id, accepted, inlined,
                  rejected, shutdown_returned, stale_notify, destroyed, texall, vovars >>

\* The call the running task made has returned, and the task returns.
Run_BodyEnd ==
  /\ pc[Worker] = "body_end"
  /\ completed' = completed \cup {task}
  /\ pc' = [pc EXCEPT ![Worker] = AfterBody(task)]
  /\ UNCHANGED << glshared, op, arg, res, task, waiter, done, kind, next_id,
                  accepted, executed, inlined, rejected, shutdown_returned,
                  stale_notify, destroyed, texall, vovars >>

\* The wrapper, lines 61-64: done = true under wait_mutex.
Wrapper_Done ==
  /\ pc[Worker] = "w_done"
  /\ done' = [done EXCEPT ![waiter] = TRUE]
  /\ pc' = [pc EXCEPT ![Worker] = "w_notify"]
  /\ UNCHANGED << glshared, op, arg, res, task, waiter, glhist, texall, vovars >>

\* The PostAndWait of host h that handed task i to Post has not returned: it
\* is at the end of Post (line 40), or at its wait (lines 72-73).
Waiting(h, i) ==
  op[h] = "PostAndWait" /\ arg[h] = i /\ pc[h] \in {"p_notify", "pw_wait", "pw_blocked"}

\* The wrapper, line 65: wait_cv.notify_one(), on the wait_cv of a
\* PostAndWait that may have returned already.
Wrapper_Notify ==
  /\ pc[Worker] = "w_notify"
  /\ pc' = [x \in Threads |->
              IF x = Worker THEN "lock"
              ELSE IF x = waiter /\ Waiting(x, task) /\ pc[x] = "pw_blocked"
                THEN "pw_wait"
              ELSE pc[x]]
  /\ stale_notify' = (stale_notify \/ ~Waiting(waiter, task))
  /\ UNCHANGED << glshared, op, arg, res, task, waiter, done, kind, next_id,
                  accepted, executed, completed, inlined, rejected,
                  shutdown_returned, destroyed, texall, vovars >>

\* Run, line 126: running_.store(false); Run returns.
Run_Leave ==
  /\ pc[Worker] = "leave"
  /\ running_' = FALSE
  /\ pc' = [pc EXCEPT ![Worker] = "exited"]
  /\ UNCHANGED << stop_, tasks_, mutex_, thread_id_, op, arg, res, task,
                  waiter, done, glhist, texall, vovars >>

\* std::condition_variable::wait may return without a notification: the
\* worker in cv_.wait, or a caller in wait_cv.wait.
SpuriousWakeup(t) ==
  /\ pc[t] \in {"waiting", "pw_blocked"}
  /\ pc' = [pc EXCEPT ![t] = IF t = Worker THEN "wake" ELSE "pw_wait"]
  /\ UNCHANGED << glshared, op, arg, res, task, waiter, done, glhist, texall, vovars >>

WorkerStep ==
  \/ Run_Init
  \/ Run_NotifyStarted
  \/ Run_Lock
  \/ Run_Predicate
  \/ Run_Block
  \/ Run_Wake
  \/ Run_Take
  \/ Run_Exec
  \/ Run_BodyEnd
  \/ Wrapper_Done
  \/ Wrapper_Notify
  \/ Run_Leave

CallStep ==
  \/ \E h \in Hosts, k \in TaskKinds : CallPost(h, k)
  \/ \E h \in Hosts, k \in TaskKinds : CallPostAndWait(h, k)
  \/ \E h \in Hosts : CallRequestShutdown(h)
  \/ \E h \in Hosts : CallDestructor(h)

MemberStep ==
  \/ \E t \in Threads : Post_Check(t)
  \/ \E t \in Threads : Post_Lock(t)
  \/ \E t \in Threads : Post_Push(t)
  \/ \E t \in Threads : Post_Notify(t)
  \/ \E t \in Threads : PostAndWait_Check(t)
  \/ \E t \in Threads : PostAndWait_Inline(t)
  \/ \E t \in Threads : PostAndWait_Wait(t)
  \/ \E t \in Threads : RequestShutdown_Store(t)
  \/ \E t \in Threads : RequestShutdown_Notify(t)
  \/ \E t \in Threads : Destructor_Join(t)

NextGL == WorkerStep \/ CallStep \/ MemberStep \/ \E t \in Threads : SpuriousWakeup(t)

InitRT == Init /\ render_context

SpecGL == InitRT /\ [][NextGL]_vars

(***************************************************************************)
(* VideoOutput                                                             *)
(***************************************************************************)

\* The fields of the TextureGL that no operation of the VideoOutput touches.
texrest == << seq, flutter_textures_valid, producer_seq, display_seq,
              consumer_seq, write_index, current_width, current_height,
              initialization_posted, resizing, resize_mutex, flutter_backing,
              rvars, cvars, hvars >>

\* The GL and EGL objects of the pool.
poolvars == << render_sync, egl_image, fbo, flutter_textures,
               buffers_initialized, gpu_queue >>

\* What eglMakeCurrent(egl_display, egl_surface, egl_surface, egl_context)
\* makes current.
ProducerCurrent == [ctx |-> "producer", draw |-> egl_surface, read |-> egl_surface]

\* The hardware init steps of video_output_new.
HwSteps == {"valid", "config", "context", "current", "register", "render"}

\* video_output_new, lines 141-163: the fields are set, hardware acceleration
\* is forced on when the S/W API is missing, and Flutter's current display,
\* context and surfaces are read.  eglGetCurrentDisplay returns a display
\* exactly when a context is current.
New_Begin ==
  /\ hpc = "created"
  /\ host_entry' = host_cur
  /\ enable_hardware_acceleration' = (enable_hardware_acceleration \/ ~sw_api)
  /\ hardware_acceleration_supported' = FALSE
  /\ IF enable_hardware_acceleration'
       THEN /\ egl_display' = (host_cur.ctx # EGL_NO_CONTEXT)
            /\ flutter_saved' = host_cur
            /\ hpc' = "new_config"
       ELSE /\ UNCHANGED << egl_display, flutter_saved >>
            /\ hpc' = "new_fallback"
  /\ UNCHANGED << texrest, glvars, poolvars, render_context, texture_gl,
                  texture_sw, pixel_buffer, egl_context, egl_surface,
                  using_flutter_surface, vo_destroyed, vo_mutex, width,
                  height, sw_api, gl_thread, voenv, dpc, tpc, idle_queue,
                  callbacks, cb_after, got_width, got_height, free_log,
                  late_use, hw_ok, unwaited >>

\* Lines 165-184: the display and context are checked and Flutter's config
\* is queried.
New_Config ==
  /\ hpc = "new_config"
  /\ IF egl_display /\ flutter_saved.ctx # EGL_NO_CONTEXT
       THEN \E found \in BOOLEAN :
              /\ hw_ok' = hw_ok \cup (IF found THEN {"valid", "config"} ELSE {"valid"})
              /\ egl_surface' = IF found THEN EGL_NO_SURFACE ELSE egl_surface
              /\ hpc' = IF found THEN "new_context" ELSE "new_fallback"
       ELSE /\ hpc' = "new_fallback"
            /\ UNCHANGED << hw_ok, egl_surface >>
  /\ UNCHANGED << texrest, glvars, poolvars, render_context, texture_gl,
                  texture_sw, pixel_buffer, egl_display, egl_context,
                  using_flutter_surface, vo_destroyed, vo_mutex, width,
                  height, voconf, voenv, dpc, tpc, flutter_saved,
                  hardware_acceleration_supported, idle_queue, callbacks,
                  cb_after, got_width, got_height, host_entry, free_log,
                  late_use, unwaited >>

\* Lines 192-195: eglCreateContext.
New_CreateContext ==
  /\ hpc = "new_context"
  /\ \E created \in BOOLEAN :
       /\ egl_context' = IF created THEN "producer" ELSE EGL_NO_CONTEXT
       /\ context_alive' = created
       /\ hw_ok' = IF created THEN hw_ok \cup {"context"} ELSE hw_ok
       /\ hpc' = IF created THEN "new_current" ELSE "new_fallback"
  /\ UNCHANGED << texrest, glvars, poolvars, render_context, texture_gl,
                  texture_sw, pixel_buffer, egl_display, egl_surface,
                  using_flutter_surface, vo_destroyed, vo_mutex, width,
                  height, voconf, host_cur, update_cb, registered,
                  surfaces_destroyed, dw, dh, rotate, dpc, tpc,
                  flutter_saved, hardware_acceleration_supported, idle_queue,
                  callbacks, cb_after, got_width, got_height, host_entry,
                  free_log, late_use, unwaited >>

\* Line 198: the first activation of the producer context.
New_MakeCurrent ==
  /\ hpc = "new_current"
  /\ \E made \in BOOLEAN :
       /\ host_cur' = IF made THEN ProducerCurrent ELSE host_cur
       /\ hw_ok' = IF made THEN hw_ok \cup {"current"} ELSE hw_ok
       /\ hpc' = IF made THEN "new_texture" ELSE "new_fallback"
  /\ UNCHANGED << texrest, glvars, poolvars, render_context, vofields,
                  voconf, update_cb, registered, context_alive,
                  surfaces_destroyed, dw, dh, rotate, dpc, tpc,
                  flutter_saved, hardware_acceleration_supported, idle_queue,
                  callbacks, cb_after, got_width, got_height, host_entry,
                  free_log, late_use, unwaited >>

\* Lines 202-205: texture_gl_new and its registration.
New_Register_unchecked ==
  /\ hpc = "new_texture"
  /\ texture_gl' = "live"
  /\ \E ok \in BOOLEAN :
       /\ registered' = IF ok THEN registered \cup {"gl"} ELSE registered
       /\ hw_ok' = IF ok THEN hw_ok \cup {"register"} ELSE hw_ok
       /\ hpc' = "new_render"
  /\ UNCHANGED << texrest, glvars, poolvars, render_context, texture_sw,
                  pixel_buffer, egl_display, egl_context, egl_surface,
                  using_flutter_surface, vo_destroyed, vo_mutex, width,
                  height, voconf, host_cur, update_cb, context_alive,
                  surfaces_destroyed, dw, dh, rotate, dpc, tpc,
                  flutter_saved, hardware_acceleration_supported, idle_queue,
                  callbacks, cb_after, got_width, got_height, host_entry,
                  free_log, late_use, unwaited >>

New_Register ==
  /\ hpc = "new_texture"
  /\ texture_gl' = "live"
  /\ \E ok \in BOOLEAN :
       /\ registered' = IF ok THEN registered \cup {"gl"} ELSE registered
       /\ hw_ok' = IF ok THEN hw_ok \cup {"register"} ELSE hw_ok
       /\ hpc' = IF ok THEN "new_render" ELSE "new_restore"
  /\ UNCHANGED << texrest, glvars, poolvars, render_context, texture_sw,
                  pixel_buffer, egl_display, egl_context, egl_surface,
                  using_flutter_surface, vo_destroyed, vo_mutex, width,
                  height, voconf, host_cur, update_cb, context_alive,
                  surfaces_destroyed, dw, dh, rotate, dpc, tpc,
                  flutter_saved, hardware_acceleration_supported, idle_queue,
                  callbacks, cb_after, got_width, got_height, host_entry,
                  free_log, late_use, unwaited >>

\* Lines 231-247: mpv_render_context_create and, when it succeeds, the
\* hardware update callback.
New_RenderContext ==
  /\ hpc = "new_render"
  /\ \E ok \in BOOLEAN :
       /\ render_context' = ok
       /\ update_cb' = IF ok THEN "hw" ELSE update_cb
       /\ hardware_acceleration_supported' = ok
       /\ hw_ok' = IF ok THEN hw_ok \cup {"render"} ELSE hw_ok
  /\ hpc' = "new_restore"
  /\ UNCHANGED << texrest, glvars, poolvars, vofields, voconf, host_cur,
                  registered, context_alive, surfaces_destroyed, dw, dh,
                  rotate, dpc, tpc, flutter_saved, idle_queue, callbacks,
                  cb_after, got_width, got_height, host_entry, free_log,
                  late_use, unwaited >>

\* Line 253: Flutter's context is made current again.
New_Restore ==
  /\ hpc = "new_restore"
  /\ host_cur' = flutter_saved
  /\ hpc' = "new_fallback"
  /\ UNCHANGED << texrest, glvars, poolvars, render_context, vofields,
                  voconf, update_cb, registered, context_alive,
                  surfaces_destroyed, dw, dh, rotate, dpc, tpc,
                  flutter_saved, hardware_acceleration_supported, idle_queue,
                  callbacks, cb_after, got_width, got_height, vohist >>

\* Lines 268-320: the fallback to S/W rendering, when it is compiled in, and
\* the return.
New_Finish ==
  /\ hpc = "new_fallback"
  /\ IF sw_api /\ ~hardware_acceleration_supported
       THEN /\ pixel_buffer' = "live"
            /\ texture_gl' = "null"
            /\ texture_sw' = "live"
            /\ \E reg \in BOOLEAN, ok \in BOOLEAN :
                 /\ registered' = IF reg THEN registered \cup {"sw"} ELSE registered
                 /\ render_context' = (reg /\ ok)
                 /\ update_cb' = IF reg /\ ok THEN "sw" ELSE update_cb
       ELSE UNCHANGED << pixel_buffer, texture_gl, texture_sw, registered,
                         render_context, update_cb >>
  /\ hpc' = "main"
  /\ UNCHANGED << texrest, glvars, poolvars, egl_display, egl_context,
                  egl_surface, using_flutter_surface, vo_destroyed, vo_mutex,
                  width, height, voconf, host_cur, context_alive,
                  surfaces_destroyed, dw, dh, rotate, dpc, tpc,
                  flutter_saved, hardware_acceleration_supported, idle_queue,
                  callbacks, cb_after, got_width, got_height, vohist >>

\* A render task of the render thread while the VideoOutput is in use
\* (texture_gl_check_and_resize and texture_gl_render): the pool's objects
\* exist afterwards and slot i carries the fence of the frame just submitted.
Vo_Frame(i) ==
  /\ hpc = "main"
  /\ texture_gl = "live"
  /\ render_context
  /\ Len(gpu_queue) < NUM_BUFFERS
  /\ buffers_initialized' = TRUE
  /\ egl_image' = [j \in Slots |-> 1]
  /\ fbo' = [j \in Slots |-> 1]
  /\ render_sync' = [render_sync EXCEPT ![i] = 1]
  /\ gpu_queue' = Append(Remove(gpu_queue, i), i)
  /\ UNCHANGED << texrest, glvars, flutter_textures, render_context,
                  vofields, voconf, voenv, vothread, vohist >>

\* The decoder invokes the update callback it holds.  The S/W callback
\* (lines 285-314) only schedules an idle callback on the host's main loop.
Cb_Begin ==
  /\ update_cb # "none"
  /\ dpc = "idle"
  /\ callbacks < MaxCallbacks
  /\ callbacks' = callbacks + 1
  /\ IF update_cb = "hw"
       THEN /\ dpc' = "cb_check"
            /\ cb_after' = vo_destroyed
            /\ UNCHANGED idle_queue
       ELSE /\ idle_queue' = idle_queue + 1
            /\ UNCHANGED << dpc, cb_after >>
  /\ UNCHANGED << texrest, glvars, poolvars, render_context, vofields,
                  voconf, voenv, hpc, tpc, flutter_saved,
                  hardware_acceleration_supported, got_width, got_height,
                  vohist >>

\* Lines 236-238 with the check of destroyed left out.
Cb_Check_unchecked ==
  /\ dpc = "cb_check"
  /\ dpc' = "cb_mark"
  /\ UNCHANGED << texrest, glvars, poolvars, render_context, vofields,
                  voconf, voenv, hpc, tpc, flutter_saved,
                  hardware_acceleration_supported, idle_queue, callbacks,
                  cb_after, got_width, got_height, vohist >>

\* Lines 236-238 of the hardware callback: return when destroyed.
Cb_Check ==
  /\ dpc = "cb_check"
  /\ dpc' = IF vo_destroyed THEN "idle" ELSE "cb_mark"
  /\ cb_after' = IF vo_destroyed THEN FALSE ELSE cb_after
  /\ UNCHANGED << texrest, glvars, poolvars, render_context, vofields,
                  voconf, voenv, hpc, tpc, flutter_saved,
                  hardware_acceleration_supported, idle_queue, callbacks,
                  got_width, got_height, vohist >>

\* Lines 239-240: fl_texture_registrar_mark_texture_frame_available with
\* self->texture_registrar and self->texture_gl.
Cb_Mark ==
  /\ dpc = "cb_mark"
  /\ late_use' = (late_use \/ texture_gl # "live" \/ "gl" \notin registered)
  /\ dpc' = "idle"
  /\ cb_after' = FALSE
  /\ UNCHANGED << texrest, glvars, poolvars, render_context, vofields,
                  voconf, voenv, hpc, tpc, flutter_saved,
                  hardware_acceleration_supported, idle_queue, callbacks,
                  got_width, got_height, host_entry, free_log, hw_ok,
                  unwaited >>

\* The host's main loop runs a scheduled idle callback, lines 287-292: it
\* returns when destroyed, and locks the mutex otherwise.
Idle_Begin ==
  /\ hpc \in {"main", "disposed"}
  /\ idle_queue > 0
  /\ idle_queue' = idle_queue - 1
  /\ IF vo_destroyed
       THEN UNCHANGED << hpc, vo_mutex >>
       ELSE /\ hpc' = "idle_render"
            /\ vo_mutex' = "host"
  /\ UNCHANGED << texrest, glvars, poolvars, render_context, texture_gl,
                  texture_sw, pixel_buffer, egl_display, egl_context,
                  egl_surface, using_flutter_surface, vo_destroyed, width,
                  height, voconf, voenv, dpc, tpc, flutter_saved,
                  hardware_acceleration_supported, callbacks, cb_after,
                  got_width, got_height, vohist >>

\* SW_RENDERING_MAX_WIDTH and SW_RENDERING_MAX_HEIGHT of video_output.h.
SW_RENDERING_MAX_WIDTH == 1920
SW_RENDERING_MAX_HEIGHT == 1080

\* Lines 416-417 and 466-467: the decoder's size, swapped for a rotation
\* other than 0 and 180.
RotatedWidth == IF rotate = 0 \/ rotate = 180 THEN dw ELSE dh
RotatedHeight == IF rotate = 0 \/ rotate = 180 THEN dh ELSE dw

\* gint64 division of non-negative operands.
Div(a, b) == a \div b

\* CLAMP of glib.
CLAMP(x, low, high) == IF x > high THEN high ELSE IF x < low THEN low ELSE x

\* video_output_get_width, lines 383-431.
video_output_get_width ==
  IF width # 0 THEN width
  ELSE IF texture_sw # "null" /\ RotatedWidth >= SW_RENDERING_MAX_WIDTH
         THEN SW_RENDERING_MAX_WIDTH
  ELSE IF texture_sw # "null" /\ RotatedHeight >= SW_RENDERING_MAX_HEIGHT
         THEN Div(RotatedWidth, RotatedHeight) * SW_RENDERING_MAX_HEIGHT
  ELSE RotatedWidth

\* video_output_get_height, lines 433-481; line 435 tests self->width.
video_output_get_height ==
  IF width # 0 THEN height
  ELSE IF texture_sw # "null" /\ RotatedHeight >= SW_RENDERING_MAX_HEIGHT
         THEN SW_RENDERING_MAX_HEIGHT
  ELSE IF texture_sw # "null" /\ RotatedWidth >= SW_RENDERING_MAX_WIDTH
         THEN Div(RotatedHeight, RotatedWidth) * SW_RENDERING_MAX_WIDTH
  ELSE RotatedHeight

\* Lines 293-309 of the idle callback: the size is read and, when it is not
\* empty, the decoder renders into the pixel buffer and the registrar is told.
Idle_Render ==
  /\ hpc = "idle_render"
  /\ got_width' = video_output_get_width
  /\ got_height' = video_output_get_height
  /\ late_use' = (late_use \/ (got_width' > 0 /\ got_height' > 0
                                /\ (pixel_buffer # "live" \/ texture_sw # "live"
                                    \/ ~render_context \/ "sw" \notin registered)))
  /\ hpc' = "idle_unlock"
  /\ UNCHANGED << texrest, glvars, poolvars, render_context, vofields,
                  voconf, voenv, dpc, tpc, flutter_saved,
                  hardware_acceleration_supported, idle_queue, callbacks,
                  cb_after, host_entry, free_log, hw_ok, unwaited >>

\* Lines 310-311.
Idle_Unlock ==
  /\ hpc = "idle_unlock"
  /\ vo_mutex' = "free"
  /\ hpc' = "main"
  /\ UNCHANGED << texrest, glvars, poolvars, render_context, texture_gl,
                  texture_sw, pixel_buffer, egl_display, egl_context,
                  egl_surface, using_flutter_surface, vo_destroyed, width,
                  height, voconf, voenv, dpc, tpc, flutter_saved,
                  hardware_acceleration_supported, idle_queue, callbacks,
                  cb_after, got_width, got_height, vohist >>

\* The host makes its context current, or releases it, between two calls
\* into the VideoOutput.
Host_Switch ==
  /\ hpc = "main"
  /\ \E c \in {NoCurrent, FlutterCurrent} : c # host_cur /\ host_cur' = c
  /\ UNCHANGED << texrest, glvars, poolvars, render_context, vofields,
                  voconf, update_cb, registered, context_alive,
                  surfaces_destroyed, dw, dh, rotate, vothread, vohist >>

\* video_output_dispose, lines 44-46: destroyed is set under the mutex.
D_SetDestroyed ==
  /\ hpc = "main"
  /\ host_entry' = host_cur
  /\ vo_destroyed' = TRUE
  /\ hpc' = "d_clear"
  /\ UNCHANGED << texrest, glvars, poolvars, render_context, texture_gl,
                  texture_sw, pixel_buffer, egl_display, egl_context,
                  egl_surface, using_flutter_surface, vo_mutex, width,
                  height, voconf, voenv, dpc, tpc, flutter_saved,
                  hardware_acceleration_supported, idle_queue, callbacks,
                  cb_after, got_width, got_height, free_log, late_use, hw_ok,
                  unwaited >>

\* Lines 49-51 with the update callback left in place.
D_ClearCallback_kept ==
  /\ hpc = "d_clear"
  /\ hpc' = IF texture_gl # "null" THEN "d_unregister" ELSE "d_sw"
  /\ UNCHANGED << texrest, glvars, poolvars, render_context, vofields,
                  voconf, voenv, dpc, tpc, flutter_saved,
                  hardware_acceleration_supported, idle_queue, callbacks,
                  cb_after, got_width, got_height, vohist >>

\* Lines 49-54: the decoder's update callback is cleared.
D_ClearCallback ==
  /\ hpc = "d_clear"
  /\ update_cb' = IF render_context THEN "none" ELSE update_cb
  /\ hpc' = IF texture_gl # "null" THEN "d_unregister" ELSE "d_sw"
  /\ UNCHANGED << texrest, glvars, poolvars, render_context, vofields,
                  voconf, host_cur, registered, context_alive,
                  surfaces_destroyed, dw, dh, rotate, dpc, tpc,
                  flutter_saved, hardware_acceleration_supported, idle_queue,
                  callbacks, cb_after, got_width, got_height, vohist >>

\* Lines 55-64: the texture is unregistered and Flutter's current context and
\* surfaces are saved.
D_Unregister ==
  /\ hpc = "d_unregister"
  /\ registered' = registered \ {"gl"}
  /\ flutter_saved' = host_cur
  /\ hpc' = IF render_context THEN "d_current" ELSE "d_context"
  /\ UNCHANGED << texrest, glvars, poolvars, render_context, vofields,
                  voconf, host_cur, update_cb, context_alive,
                  surfaces_destroyed, dw, dh, rotate, dpc, tpc,
                  hardware_acceleration_supported, idle_queue, callbacks,
                  cb_after, got_width, got_height, vohist >>

\* Lines 65-67 and 75-83: the producer context is made current, if there is
\* one and if EGL lets it.
D_MakeCurrent ==
  /\ hpc = "d_current"
  /\ IF egl_context # EGL_NO_CONTEXT /\ egl_display
       THEN \E made \in BOOLEAN :
              /\ host_cur' = IF made THEN ProducerCurrent ELSE host_cur
              /\ hpc' = IF made THEN "d_free" ELSE "d_free_anyway"
       ELSE /\ hpc' = "d_free_anyway"
            /\ UNCHANGED host_cur
  /\ UNCHANGED << texrest, glvars, poolvars, render_context, vofields,
                  voconf, update_cb, registered, context_alive,
                  surfaces_destroyed, dw, dh, rotate, dpc, tpc,
                  flutter_saved, hardware_acceleration_supported, idle_queue,
                  callbacks, cb_after, got_width, got_height, vohist >>

\* What the free log keeps of a call of mpv_render_context_free: whether the
\* producer context was current on the calling thread and whether a slot of
\* the pool held a fence.
FreeRecord == [current |-> host_cur.ctx = "producer",
               fence |-> \E i \in Slots : render_sync[i] # EGL_NO_SYNC_KHR]

\* Lines 68-69: mpv_render_context_free under the producer context.
D_Free ==
  /\ hpc = "d_free"
  /\ render_context' = FALSE
  /\ free_log' = free_log \cup {FreeRecord}
  /\ hpc' = "d_restore"
  /\ UNCHANGED << texrest, glvars, poolvars, vofields, voconf, voenv, dpc,
                  tpc, flutter_saved, hardware_acceleration_supported,
                  idle_queue, callbacks, cb_after, got_width, got_height,
                  host_entry, late_use, hw_ok, unwaited >>

\* Lines 79-80 and 84-85: mpv_render_context_free without the producer
\* context.
D_FreeAnyway ==
  /\ hpc = "d_free_anyway"
  /\ render_context' = FALSE
  /\ free_log' = free_log \cup {FreeRecord}
  /\ hpc' = "d_context"
  /\ UNCHANGED << texrest, glvars, poolvars, vofields, voconf, voenv, dpc,
                  tpc, flutter_saved, hardware_acceleration_supported,
                  idle_queue, callbacks, cb_after, got_width, got_height,
                  host_entry, late_use, hw_ok, unwaited >>

\* Lines 72-74: Flutter's context is made current again if there was one.
D_Restore ==
  /\ hpc = "d_restore"
  /\ host_cur' = IF flutter_saved.ctx # EGL_NO_CONTEXT THEN flutter_saved ELSE host_cur
  /\ hpc' = "d_context"
  /\ UNCHANGED << texrest, glvars, poolvars, render_context, vofields,
                  voconf, update_cb, registered, context_alive,
                  surfaces_destroyed, dw, dh, rotate, dpc, tpc,
                  flutter_saved, hardware_acceleration_supported, idle_queue,
                  callbacks, cb_after, got_width, got_height, vohist >>

\* Lines 90-93: eglDestroyContext.
D_DestroyContext ==
  /\ hpc = "d_context"
  /\ IF egl_context # EGL_NO_CONTEXT /\ egl_display
       THEN /\ context_alive' = FALSE
            /\ egl_context' = EGL_NO_CONTEXT
       ELSE UNCHANGED << context_alive, egl_context >>
  /\ hpc' = "d_unref"
  /\ UNCHANGED << texrest, glvars, poolvars, render_context, texture_gl,
                  texture_sw, pixel_buffer, egl_display, egl_surface,
                  using_flutter_surface, vo_destroyed, vo_mutex, width,
                  height, voconf, host_cur, update_cb, registered,
                  surfaces_destroyed, dw, dh, rotate, dpc, tpc,
                  flutter_saved, hardware_acceleration_supported, idle_queue,
                  callbacks, cb_after, got_width, got_height, vohist >>

\* Line 96 drops the last reference: texture_gl_dispose, texture_gl.cc lines
\* 116-129.  Flutter's textures are deleted and the teardown of the pool is
\* handed to the render thread, if there is one.
TextureDispose_Begin ==
  /\ hpc = "d_unref"
  /\ flutter_textures' = [i \in Slots |-> 0]
  /\ IF gl_thread
       THEN tpc' = "fences" /\ hpc' = "td_wait"
       ELSE tpc' = "done" /\ hpc' = "td_wait"
  /\ UNCHANGED << texrest, glvars, render_sync, egl_image, fbo,
                  buffers_initialized, gpu_queue, render_context, vofields,
                  voconf, voenv, dpc, flutter_saved,
                  hardware_acceleration_supported, idle_queue, callbacks,
                  cb_after, got_width, got_height, vohist >>

\* The teardown task, texture_gl.cc lines 130-148: every fence and every
\* image is destroyed.
Teardown_Fences ==
  /\ tpc = "fences"
  /\ unwaited' = unwaited \cup {i \in Slots : render_sync[i] # EGL_NO_SYNC_KHR /\ ~Signaled(i)}
  /\ render_sync' = [i \in Slots |-> EGL_NO_SYNC_KHR]
  /\ egl_image' = [i \in Slots |-> EGL_NO_IMAGE_KHR]
  /\ tpc' = "objects"
  /\ UNCHANGED << texrest, glvars, fbo, flutter_textures,
                  buffers_initialized, gpu_queue, render_context, vofields,
                  voconf, voenv, hpc, dpc, flutter_saved,
                  hardware_acceleration_supported, idle_queue, callbacks,
                  cb_after, got_width, got_height, host_entry, free_log,
                  late_use, hw_ok >>

\* The teardown task, texture_gl.cc lines 150-166: textures and FBOs are
\* deleted under the producer context, if video_output_get_egl_context
\* still returns one.
Teardown_Objects ==
  /\ tpc = "objects"
  /\ fbo' = IF egl_context # EGL_NO_CONTEXT THEN [i \in Slots |-> 0] ELSE fbo
  /\ tpc' = "done"
  /\ UNCHANGED << texrest, glvars, render_sync, egl_image, flutter_textures,
                  buffers_initialized, gpu_queue, render_context, vofields,
                  voconf, voenv, hpc, dpc, flutter_saved,
                  hardware_acceleration_supported, idle_queue, callbacks,
                  cb_after, got_width, got_height, vohist >>

\* texture_gl.cc lines 170-174: PostAndWait has returned, or was not
\* called; the TextureGL is gone.
TextureDispose_End ==
  /\ hpc = "td_wait"
  /\ tpc = "done"
  /\ tpc' = "idle"
  /\ texture_gl' = "freed"
  /\ hpc' = "d_sw"
  /\ UNCHANGED << texrest, glvars, poolvars, render_context, texture_sw,
                  pixel_buffer, egl_display, egl_context, egl_surface,
                  using_flutter_surface, vo_destroyed, vo_mutex, width,
                  height, voconf, voenv, dpc, flutter_saved,
                  hardware_acceleration_supported, idle_queue, callbacks,
                  cb_after, got_width, got_height, vohist >>

\* Lines 99-108: the S/W texture is unregistered, the pixel buffer and the
\* texture are released and the render context is freed.
D_Software ==
  /\ hpc = "d_sw"
  /\ IF texture_sw # "null"
       THEN /\ registered' = registered \ {"sw"}
            /\ pixel_buffer' = "freed"
            /\ texture_sw' = "freed"
            /\ render_context' = FALSE
       ELSE UNCHANGED << registered, pixel_buffer, texture_sw, render_context >>
  /\ hpc' = "d_finish"
  /\ UNCHANGED << texrest, glvars, poolvars, texture_gl, egl_display,
                  egl_context, egl_surface, using_flutter_surface,
                  vo_destroyed, vo_mutex, width, height, voconf, host_cur,
                  update_cb, context_alive, surfaces_destroyed, dw, dh,
                  rotate, dpc, tpc, flutter_saved,
                  hardware_acceleration_supported, idle_queue, callbacks,
                  cb_after, got_width, got_height, vohist >>

\* Lines 110-111.
D_Finish ==
  /\ hpc = "d_finish"
  /\ vo_mutex' = "cleared"
  /\ hpc' = "disposed"
  /\ UNCHANGED << texrest, glvars, poolvars, render_context, texture_gl,
                  texture_sw, pixel_buffer, egl_display, egl_context,
                  egl_surface, using_flutter_surface, vo_destroyed, width,
                  height, voconf, voenv, dpc, tpc, flutter_saved,
                  hardware_acceleration_supported, idle_queue, callbacks,
                  cb_after, got_width, got_height, vohist >>

NewStep ==
  \/ New_Begin \/ New_Config \/ New_CreateContext \/ New_MakeCurrent
  \/ New_Register \/ New_RenderContext \/ New_Restore \/ New_Finish

DecoderStep == Cb_Begin \/ Cb_Check \/ Cb_Mark

MainLoopStep == Idle_Begin \/ Idle_Render \/ Idle_Unlock \/ Host_Switch

DisposeStep ==
  \/ D_SetDestroyed \/ D_ClearCallback \/ D_Unregister \/ D_MakeCurrent
  \/ D_Free \/ D_FreeAnyway \/ D_Restore \/ D_DestroyContext
  \/ TextureDispose_Begin \/ TextureDispose_End \/ D_Software \/ D_Finish

TeardownStep == Teardown_Fences \/ Teardown_Objects

NextVO ==
  \/ NewStep \/ DecoderStep \/ MainLoopStep \/ DisposeStep \/ TeardownStep
  \/ (\E i \in Slots : Vo_Frame(i)) \/ GpuComplete

\* The decoder's sizes the model draws from: no video, and a landscape video.
DecoderSizes == {<<0, 0>>, <<640, 360>>}

\* A VideoOutput about to be constructed: every configuration and build, on
\* a host thread with or without a current context.
InitNew ==
  /\ InitTex /\ ~render_context
  /\ InitGL
  /\ VoCreated
  /\ enable_hardware_acceleration \in BOOLEAN
  /\ sw_api \in BOOLEAN
  /\ gl_thread \in BOOLEAN
  /\ host_cur \in {NoCurrent, FlutterCurrent}
  /\ host_entry = host_cur
  /\ \E s \in DecoderSizes : dw = s[1] /\ dh = s[2]
  /\ rotate = 0

SpecVO == InitNew /\ [][NextVO]_vars

(***************************************************************************)
(* The VideoOutput that renders to a pbuffer or to Flutter's surface:      *)
(* the video_output.cc kept in libs/linux/media_kit_libs_linux/linux.      *)
(***************************************************************************)

\* video_output_new, lines 279-309: the fields are set and Flutter's current
\* display, context and surfaces are read; only the display is checked.
Pb_New_Begin ==
  /\ hpc = "created"
  /\ host_entry' = host_cur
  /\ enable_hardware_acceleration' = (enable_hardware_acceleration \/ ~sw_api)
  /\ hardware_acceleration_supported' = FALSE
  /\ IF enable_hardware_acceleration'
       THEN /\ egl_display' = (host_cur.ctx # EGL_NO_CONTEXT)
            /\ flutter_saved' = host_cur
            /\ hpc' = IF egl_display' THEN "pb_config" ELSE "pb_fallback"
       ELSE /\ UNCHANGED << egl_display, flutter_saved >>
            /\ hpc' = "pb_fallback"
  /\ UNCHANGED << texrest, glvars, poolvars, render_context, texture_gl,
                  texture_sw, pixel_buffer, egl_context, egl_surface,
                  using_flutter_surface, vo_destroyed, vo_mutex, width,
                  height, sw_api, gl_thread, voenv, dpc, tpc, idle_queue,
                  callbacks, cb_after, got_width, got_height, free_log,
                  late_use, hw_ok, unwaited >>

\* Lines 315-433: a config is chosen (Flutter's, or one of the four
\* attempts), and the drawable: a 1x1 pbuffer when the config has
\* EGL_PBUFFER_BIT and eglCreatePbufferSurface succeeds, Flutter's draw
\* surface otherwise.
Pb_New_Surface ==
  /\ hpc = "pb_config"
  /\ \E found \in BOOLEAN, pbuffer_bit \in BOOLEAN, created \in BOOLEAN :
       IF found
         THEN /\ egl_surface' = IF pbuffer_bit /\ created THEN "pbuffer"
                                ELSE flutter_saved.draw
              /\ using_flutter_surface' = ~(pbuffer_bit /\ created)
              /\ hpc' = "pb_context"
         ELSE /\ hpc' = "pb_fallback"
              /\ UNCHANGED << egl_surface, using_flutter_surface >>
  /\ UNCHANGED << texrest, glvars, poolvars, render_context, texture_gl,
                  texture_sw, pixel_buffer, egl_display, egl_context,
                  vo_destroyed, vo_mutex, width, height, voconf, voenv, dpc,
                  tpc, flutter_saved, hardware_acceleration_supported,
                  idle_queue, callbacks, cb_after, got_width, got_height,
                  vohist >>

\* Lines 442-457: eglCreateContext, for ES 2 and then for ES 3.
Pb_New_CreateContext ==
  /\ hpc = "pb_context"
  /\ \E created \in BOOLEAN :
       /\ egl_context' = IF created THEN "producer" ELSE EGL_NO_CONTEXT
       /\ context_alive' = created
       /\ hpc' = IF created THEN "pb_current" ELSE "pb_fallback"
  /\ UNCHANGED << texrest, glvars, poolvars, render_context, texture_gl,
                  texture_sw, pixel_buffer, egl_display, egl_surface,
                  using_flutter_surface, vo_destroyed, vo_mutex, width,
                  height, voconf, host_cur, update_cb, registered,
                  surfaces_destroyed, dw, dh, rotate, dpc, tpc,
                  flutter_saved, hardware_acceleration_supported, idle_queue,
                  callbacks, cb_after, got_width, got_height, vohist >>

\* Line 461: the producer context is made current on the drawable.
Pb_New_MakeCurrent ==
  /\ hpc = "pb_current"
  /\ \E made \in BOOLEAN :
       /\ host_cur' = IF made THEN ProducerCurrent ELSE host_cur
       /\ hpc' = IF made THEN "pb_texture" ELSE "pb_fallback"
  /\ UNCHANGED << texrest, glvars, poolvars, render_context, vofields,
                  voconf, update_cb, registered, context_alive,
                  surfaces_destroyed, dw, dh, rotate, dpc, tpc,
                  flutter_saved, hardware_acceleration_supported, idle_queue,
                  callbacks, cb_after, got_width, got_height, vohist >>

\* Lines 464-516: texture_gl_new, its registration, mpv_render_context_create
\* and the update callback.
Pb_New_Texture ==
  /\ hpc = "pb_texture"
  /\ texture_gl' = "live"
  /\ \E reg \in BOOLEAN, ok \in BOOLEAN :
       /\ registered' = IF reg THEN registered \cup {"gl"} ELSE registered
       /\ render_context' = (reg /\ ok)
       /\ update_cb' = IF reg /\ ok THEN "hw" ELSE update_cb
       /\ hardware_acceleration_supported' = (reg /\ ok)
  /\ hpc' = "pb_restore"
  /\ UNCHANGED << texrest, glvars, poolvars, texture_sw, pixel_buffer,
                  egl_display, egl_context, egl_surface,
                  using_flutter_surface, vo_destroyed, vo_mutex, width,
                  height, voconf, host_cur, context_alive,
                  surfaces_destroyed, dw, dh, rotate, dpc, tpc,
                  flutter_saved, idle_queue, callbacks, cb_after, got_width,
                  got_height, vohist >>

\* Lines 519-526: Flutter's context is made current again if there was one.
Pb_New_Restore ==
  /\ hpc = "pb_restore"
  /\ host_cur' = IF flutter_saved.ctx # EGL_NO_CONTEXT THEN flutter_saved ELSE host_cur
  /\ hpc' = "pb_fallback"
  /\ UNCHANGED << texrest, glvars, poolvars, render_context, vofields,
                  voconf, update_cb, registered, context_alive,
                  surfaces_destroyed, dw, dh, rotate, dpc, tpc,
                  flutter_saved, hardware_acceleration_supported, idle_queue,
                  callbacks, cb_after, got_width, got_height, vohist >>

\* Lines 540-600: the fallback to S/W rendering and the return.
Pb_New_Finish ==
  /\ hpc = "pb_fallback"
  /\ IF sw_api /\ ~hardware_acceleration_supported
       THEN /\ pixel_buffer' = "live"
            /\ texture_gl' = "null"
            /\ texture_sw' = "live"
            /\ \E reg \in BOOLEAN, ok \in BOOLEAN :
                 /\ registered' = IF reg THEN registered \cup {"sw"} ELSE registered
                 /\ render_context' = (reg /\ ok)
                 /\ update_cb' = IF reg /\ ok THEN "sw" ELSE update_cb
       ELSE UNCHANGED << pixel_buffer, texture_gl, texture_sw, registered,
                         render_context, update_cb >>
  /\ hpc' = "main"
  /\ UNCHANGED << texrest, glvars, poolvars, egl_display, egl_context,
                  egl_surface, using_flutter_surface, vo_destroyed, vo_mutex,
                  width, height, voconf, host_cur, context_alive,
                  surfaces_destroyed, dw, dh, rotate, dpc, tpc,
                  flutter_saved, hardware_acceleration_supported, idle_queue,
                  callbacks, cb_after, got_width, got_height, vohist >>

\* video_output_dispose, lines 174-185: destroyed is set and the update
\* callback is cleared.
Pb_Dispose_Begin ==
  /\ hpc = "main"
  /\ host_entry' = host_cur
  /\ vo_destroyed' = TRUE
  /\ update_cb' = IF render_context THEN "none" ELSE update_cb
  /\ hpc' = IF texture_gl # "null" THEN "pb_unregister" ELSE "pb_sw"
  /\ UNCHANGED << texrest, glvars, poolvars, render_context, texture_gl,
                  texture_sw, pixel_buffer, egl_display, egl_context,
                  egl_surface, using_flutter_surface, vo_mutex, width,
                  height, voconf, host_cur, registered, context_alive,
                  surfaces_destroyed, dw, dh, rotate, dpc, tpc,
                  flutter_saved, hardware_acceleration_supported, idle_queue,
                  callbacks, cb_after, got_width, got_height, free_log,
                  late_use, hw_ok, unwaited >>

\* Lines 187-193: the texture is unregistered and Flutter's current context
\* and surfaces are saved.
Pb_Dispose_Unregister ==
  /\ hpc = "pb_unregister"
  /\ registered' = registered \ {"gl"}
  /\ flutter_saved' = host_cur
  /\ hpc' = "pb_free"
  /\ UNCHANGED << texrest, glvars, poolvars, render_context, vofields,
                  voconf, host_cur, update_cb, context_alive,
                  surfaces_destroyed, dw, dh, rotate, dpc, tpc,
                  hardware_acceleration_supported, idle_queue, callbacks,
                  cb_after, got_width, got_height, vohist >>

\* Lines 199-213: the render context, if any, is freed after an eglMakeCurrent
\* whose result is not looked at, and Flutter's context is made current again
\* if there was one.
Pb_Dispose_Free ==
  /\ hpc = "pb_free"
  /\ IF render_context
       THEN /\ render_context' = FALSE
            /\ \E made \in BOOLEAN :
                 host_cur' = IF flutter_saved.ctx # EGL_NO_CONTEXT THEN flutter_saved
                             ELSE IF made /\ egl_context # EGL_NO_CONTEXT THEN ProducerCurrent
                             ELSE host_cur
       ELSE UNCHANGED << render_context, host_cur >>
  /\ hpc' = "pb_destroy"
  /\ UNCHANGED << texrest, glvars, poolvars, vofields, voconf, update_cb,
                  registered, context_alive, surfaces_destroyed, dw, dh,
                  rotate, dpc, tpc, flutter_saved,
                  hardware_acceleration_supported, idle_queue, callbacks,
                  cb_after, got_width, got_height, vohist >>

\* Lines 216-225: eglDestroyContext, and eglDestroySurface of egl_surface
\* when it is not EGL_NO_SURFACE.
Pb_Dispose_Destroy ==
  /\ hpc = "pb_destroy"
  /\ IF egl_context # EGL_NO_CONTEXT
       THEN context_alive' = FALSE /\ egl_context' = EGL_NO_CONTEXT
       ELSE UNCHANGED << context_alive, egl_context >>
  /\ IF egl_surface # EGL_NO_SURFACE
       THEN /\ surfaces_destroyed' = surfaces_destroyed \cup {egl_surface}
            /\ egl_surface' = EGL_NO_SURFACE
       ELSE UNCHANGED << surfaces_destroyed, egl_surface >>
  /\ hpc' = "pb_unref"
  /\ UNCHANGED << texrest, glvars, poolvars, render_context, texture_gl,
                  texture_sw, pixel_buffer, egl_display,
                  using_flutter_surface, vo_destroyed, vo_mutex, width,
                  height, voconf, host_cur, update_cb, registered, dw, dh,
                  rotate, dpc, tpc, flutter_saved,
                  hardware_acceleration_supported, idle_queue, callbacks,
                  cb_after, got_width, got_height, vohist >>

\* Lines 228-232: the TextureGL is released.
Pb_Dispose_Unref ==
  /\ hpc = "pb_unref"
  /\ texture_gl' = "freed"
  /\ hpc' = "pb_sw"
  /\ UNCHANGED << texrest, glvars, poolvars, render_context, texture_sw,
                  pixel_buffer, egl_display, egl_context, egl_surface,
                  using_flutter_surface, vo_destroyed, vo_mutex, width,
                  height, voconf, voenv, dpc, tpc, flutter_saved,
                  hardware_acceleration_supported, idle_queue, callbacks,
                  cb_after, got_width, got_height, vohist >>

\* Lines 234-247: the S/W resources are released, the mutex is cleared.
Pb_Dispose_Finish ==
  /\ hpc = "pb_sw"
  /\ IF texture_sw # "null"
       THEN /\ registered' = registered \ {"sw"}
            /\ pixel_buffer' = "freed"
            /\ texture_sw' = "freed"
            /\ render_context' = FALSE
       ELSE UNCHANGED << registered, pixel_buffer, texture_sw, render_context >>
  /\ vo_mutex' = "cleared"
  /\ hpc' = "pb_disposed"
  /\ UNCHANGED << texrest, glvars, poolvars, texture_gl, egl_display,
                  egl_context, egl_surface, using_flutter_surface,
                  vo_destroyed, width, height, voconf, host_cur, update_cb,
                  context_alive, surfaces_destroyed, dw, dh, rotate, dpc,
                  tpc, flutter_saved, hardware_acceleration_supported,
                  idle_queue, callbacks, cb_after, got_width, got_height,
                  vohist >>

NextPB ==
  \/ Pb_New_Begin \/ Pb_New_Surface \/ Pb_New_CreateContext
  \/ Pb_New_MakeCurrent \/ Pb_New_Texture \/ Pb_New_Restore \/ Pb_New_Finish
  \/ Pb_Dispose_Begin \/ Pb_Dispose_Unregister \/ Pb_Dispose_Free
  \/ Pb_Dispose_Destroy \/ Pb_Dispose_Unref \/ Pb_Dispose_Finish
  \/ Host_Switch

InitPB ==
  /\ InitTex /\ ~render_context
  /\ InitGL
  /\ VoCreated
  /\ enable_hardware_acceleration \in BOOLEAN
  /\ sw_api \in BOOLEAN
  /\ gl_thread = TRUE
  /\ host_cur \in {NoCurrent, FlutterCurrent}
  /\ host_entry = host_cur
  /\ dw = 0 /\ dh = 0 /\ rotate = 0

SpecPB == InitPB /\ [][NextPB]_vars

(***************************************************************************)
(* The size of the video: video_output_set_size, video_output_get_width    *)
(* and video_output_get_height.                                             *)
(***************************************************************************)

\* Fixed sizes a caller configures or sets; 0 is "follow the video".
FixedSizes == {0, 640, 4000}

\* Values of dw and dh the decoder reports, and of rotate.
DecoderDims == {0, 360, 640, 1000, 2000, 3000, 4000}
Rotations == {0, 90, 180, 270}

\* video_output_set_size, lines 345-361.
Size_Set(w, h) ==
  /\ hpc \in {"main", "queried"}
  /\ width' = IF texture_sw # "null" THEN CLAMP(w, 0, SW_RENDERING_MAX_WIDTH)
              ELSE IF texture_gl # "null" THEN w ELSE width
  /\ height' = IF texture_sw # "null" THEN CLAMP(h, 0, SW_RENDERING_MAX_HEIGHT)
               ELSE IF texture_gl # "null" THEN h ELSE height
  /\ hpc' = "main"
  /\ got_width' = 0 /\ got_height' = 0
  /\ UNCHANGED << texrest, glvars, poolvars, render_context, texture_gl,
                  texture_sw, pixel_buffer, egl_display, egl_context,
                  egl_surface, using_flutter_surface, vo_destroyed, vo_mutex,
                  voconf, voenv, dpc, tpc, flutter_saved,
                  hardware_acceleration_supported, idle_queue, callbacks,
                  cb_after, vohist >>

\* The decoder's "video-out-params" change.
Size_Decoder(w, h, r) ==
  /\ hpc \in {"main", "queried"}
  /\ dw' = w /\ dh' = h /\ rotate' = r
  /\ hpc' = "main"
  /\ got_width' = 0 /\ got_height' = 0
  /\ UNCHANGED << texrest, glvars, poolvars, render_context, vofields,
                  voconf, host_cur, update_cb, registered, context_alive,
                  surfaces_destroyed, dpc, tpc, flutter_saved,
                  hardware_acceleration_supported, idle_queue, callbacks,
                  cb_after, vohist >>

\* video_output_notify_texture_update, lines 496-504: both
\* video_output_get_width and video_output_get_height are called.
Size_Query ==
  /\ hpc = "main"
  /\ got_width' = video_output_get_width
  /\ got_height' = video_output_get_height
  /\ hpc' = "queried"
  /\ UNCHANGED << texrest, glvars, poolvars, render_context, vofields,
                  voconf, voenv, dpc, tpc, flutter_saved,
                  hardware_acceleration_supported, idle_queue, callbacks,
                  cb_after, vohist >>

NextSize ==
  \/ \E w \in FixedSizes, h \in FixedSizes : Size_Set(w, h)
  \/ \E w \in DecoderDims, h \in DecoderDims, r \in Rotations : Size_Decoder(w, h, r)
  \/ Size_Query
  \/ Cb_Begin
  \/ Idle_Begin
  \/ Idle_Render
  \/ Idle_Unlock

\* A constructed VideoOutput, hardware or software, with the configured
\* size, before the decoder reports a video.
InitSize ==
  /\ InitTex /\ render_context
  /\ InitGL
  /\ \E hw \in BOOLEAN :
       /\ texture_gl = IF hw THEN "live" ELSE "null"
       /\ texture_sw = IF hw THEN "null" ELSE "live"
       /\ pixel_buffer = IF hw THEN "null" ELSE "live"
       /\ egl_display = hw
       /\ egl_context = IF hw THEN "producer" ELSE EGL_NO_CONTEXT
       /\ context_alive = hw
       /\ enable_hardware_acceleration = hw
       /\ hardware_acceleration_supported = hw
       /\ hw_ok = IF hw THEN HwSteps ELSE {}
       /\ update_cb = IF hw THEN "hw" ELSE "sw"
       /\ registered = IF hw THEN {"gl"} ELSE {"sw"}
       /\ flutter_saved = IF hw THEN FlutterCurrent ELSE NoCurrent
  /\ egl_surface = EGL_NO_SURFACE
  /\ using_flutter_surface = FALSE
  /\ vo_destroyed = FALSE
  /\ vo_mutex = "free"
  /\ width \in FixedSizes
  /\ height \in FixedSizes
  /\ sw_api = TRUE
  /\ gl_thread = TRUE
  /\ host_cur = FlutterCurrent
  /\ host_entry = FlutterCurrent
  /\ surfaces_destroyed = {}
  /\ dw = 0 /\ dh = 0 /\ rotate = 0
  /\ hpc = "main"
  /\ dpc = "idle"
  /\ tpc = "idle"
  /\ idle_queue = 0
  /\ callbacks = 0
  /\ cb_after = FALSE
  /\ got_width = 0
  /\ got_height = 0
  /\ free_log = {}
  /\ late_use = FALSE
  /\ unwaited = {}

SpecSize == InitSize /\ [][NextSize]_vars

(***************************************************************************)
(* The double-buffered TextureGL: one front buffer for the host, one back  *)
(* buffer for the render thread, exchanged by texture_gl_swap_buffers.     *)
(* Each section under swap_mutex is one step.                               *)
(***************************************************************************)

\* Everything the double-buffered TextureGL does not touch.
dbrest == << texvars, gpu_queue, flutter_backing, rvars, cvars, best_fence,
             poll_quiet, poll_cold, entry_posted, epoch_clean, tasks, glvars, vovars,
             xvars >>

\* The render task for a decoder notification: texture_gl_check_and_resize(w, h),
\* texture_gl_render, texture_gl_swap_buffers.
Db_TaskStart(w, h) ==
  /\ bpc = "idle"
  /\ btasks < MaxTasks
  /\ btasks' = btasks + 1
  /\ bpc' = "resize"
  /\ bw' = w /\ bh' = h
  /\ UNCHANGED << front_index, back_index, ready, sync, buf_fbo, buf_image, buf_size,
                  needs_flutter_texture_update, flutter_texture, posted, reading,
                  frame_in, rendered, render_context, dbrest >>

\* texture_gl_check_and_resize: the early returns, or, under swap_mutex, the
\* wait on each buffer's fence (EGL_FOREVER_KHR), the reallocation of both
\* buffers and the reset of the indices.
Db_Resize ==
  /\ bpc = "resize"
  /\ LET first == buf_fbo[0] = 0 \/ buf_fbo[1] = 0
         resize == buf_size # << bw, bh >>
     IN  IF bw < 1 \/ bh < 1 \/ (~first /\ ~resize)
           THEN UNCHANGED << front_index, back_index, ready, sync, buf_fbo, buf_image,
                             buf_size, needs_flutter_texture_update, reading, frame_in >>
           ELSE /\ first \/ \A i \in Buffers : sync[i] # EGL_NO_SYNC_KHR => i \notin reading
                /\ buf_fbo' = [i \in Buffers |-> 1]
                /\ buf_image' = [i \in Buffers |-> 1]
                /\ ready' = [i \in Buffers |-> FALSE]
                /\ sync' = [i \in Buffers |-> EGL_NO_SYNC_KHR]
                /\ reading' = {}
                /\ frame_in' = [i \in Buffers |-> 0]
                /\ front_index' = 0
                /\ back_index' = 1
                /\ buf_size' = << bw, bh >>
                /\ needs_flutter_texture_update' = TRUE
  /\ bpc' = "render"
  /\ bw' = 0 /\ bh' = 0
  /\ UNCHANGED << flutter_texture, posted, rendered, btasks, render_context, dbrest >>

\* texture_gl_render: return without a render context or an FBO; skip the
\* frame while the host's fence on the back buffer is pending; otherwise
\* destroy the fence, render into the back buffer and mark it ready.
Db_Render ==
  /\ bpc = "render"
  /\ IF \/ ~render_context
        \/ buf_fbo[back_index] = 0
        \/ (sync[back_index] # EGL_NO_SYNC_KHR /\ back_index \in reading)
       THEN /\ rendered' = FALSE
            /\ UNCHANGED << sync, ready, frame_in >>
       ELSE /\ sync' = [sync EXCEPT ![back_index] = EGL_NO_SYNC_KHR]
            /\ ready' = [ready EXCEPT ![back_index] = TRUE]
            /\ frame_in' = [frame_in EXCEPT ![back_index] = btasks]
            /\ rendered' = TRUE
  /\ bpc' = "swap"
  /\ UNCHANGED << front_index, back_index, buf_fbo, buf_image, buf_size,
                  needs_flutter_texture_update, flutter_texture, posted, bw, bh,
                  reading, btasks, render_context, dbrest >>

\* texture_gl_swap_buffers: under swap_mutex, exchange front and back when
\* the back buffer is ready.
Db_Swap ==
  /\ bpc = "swap"
  /\ IF ready[back_index]
       THEN /\ front_index' = back_index
            /\ back_index' = front_index
            /\ needs_flutter_texture_update' = TRUE
       ELSE UNCHANGED << front_index, back_index, needs_flutter_texture_update >>
  /\ rendered' = FALSE
  /\ bpc' = "idle"
  /\ UNCHANGED << ready, sync, buf_fbo, buf_image, buf_size, flutter_texture, posted,
                  bw, bh, reading, frame_in, btasks, render_context, dbrest >>

\* texture_gl_populate_texture: the initialization trigger; under swap_mutex,
\* rebind the host's texture to the front buffer and put a fence on it when
\* an update is needed; otherwise hand out the texture of the previous call,
\* or the 1x1 dummy when there is none.
Db_Populate(dims_known) ==
  /\ posted' = IF ~posted /\ buf_fbo[0] = 0 /\ dims_known THEN TRUE ELSE posted
  /\ IF needs_flutter_texture_update /\ buf_image[front_index] # EGL_NO_IMAGE_KHR
       THEN /\ sync' = [sync EXCEPT ![front_index] = 1]
            /\ reading' = reading \cup {front_index}
            /\ flutter_texture' = TextureName(front_index)
            /\ needs_flutter_texture_update' = FALSE
       ELSE /\ flutter_texture' = IF flutter_texture = 0 THEN DummyName ELSE flutter_texture
            /\ UNCHANGED << sync, reading, needs_flutter_texture_update >>
  /\ UNCHANGED << front_index, back_index, ready, buf_fbo, buf_image, buf_size,
                  bpc, bw, bh, frame_in, rendered, btasks, render_context, dbrest >>

\* The host's GPU work on buffer i passes the fence.
Db_ReadComplete(i) ==
  /\ i \in reading
  /\ reading' = reading \ {i}
  /\ UNCHANGED << front_index, back_index, ready, sync, buf_fbo, buf_image, buf_size,
                  needs_flutter_texture_update, flutter_texture, posted, bpc, bw, bh,
                  frame_in, rendered, btasks, render_context, dbrest >>

NextDB ==
  \/ \E sz \in VideoSizes : Db_TaskStart(sz[1], sz[2])
  \/ Db_Resize
  \/ Db_Render
  \/ Db_Swap
  \/ \E dims_known \in BOOLEAN : Db_Populate(dims_known)
  \/ \E i \in Buffers : Db_ReadComplete(i)

SpecDB == Init /\ [][NextDB]_vars

(***************************************************************************)
(* Properties                                                              *)
(***************************************************************************)

\* The render thread has picked its write slot and has not yet stored the
\* slot's new seq.
RenderWindow == rpc \in {"r_destroy_sync", "r_mpv", "r_create_sync", "swap"}

\* The most recent poll handed out slot i, the texture it returned is bound
\* to the slot's current image, and no later poll has begun.
Sampled(i) == ret.kind = "slot" /\ ret.idx = i /\ flutter_backing[i] = "live"

\* A poll returns in this step.
PollReturns == cpc # "idle" /\ cpc' = "idle"

\* The largest seq in the pool.
PoolMaxSeq == CHOOSE m \in {seq[i] : i \in Slots} : \A i \in Slots : seq[i] <= m

\* C1: the slot the render thread is rendering into (from select_write_buffer
\* until the new seq is stored) is never the slot whose texture the most
\* recent poll returned; stated for a returned slot that carries a published
\* frame.
C1_WriteSlotNeverSampled ==
  ~(RenderWindow /\ Sampled(write_index) /\ seq[write_index] # 0)

C3_NoTearing ==
  [][(PollReturns /\ ret'.kind = "slot" /\ seq[ret'.idx] # 0)
       => (render_sync[ret'.idx] = EGL_NO_SYNC_KHR \/ Signaled(ret'.idx))]_vars

\* C4: a poll never accepts a frame (sets consumer_seq) because the slot's
\* fence handle is absent while the render thread has destroyed it to
\* rewrite the slot.
C4_AcceptedFenceObserved ==
  [][(cpc = "accept" /\ cpc' # "accept" /\ best_idx >= 0)
       => best_fence # "rewriting"]_vars

\* C5: a poll that overlaps texture_gl_check_and_resize never binds a texture
\* to a slot image the resize has destroyed, and never returns a texture
\* backed by a destroyed image.
C5_ResizeIsolation ==
  [][/\ (cpc = "bind" /\ cpc' # "bind") => egl_image[display_idx] # EGL_NO_IMAGE_KHR
     /\ (PollReturns /\ ret'.kind = "slot") => flutter_backing[ret'.idx] = "live"]_vars

\* C6: after a reallocation has returned and until the next publish, every
\* slot seq is 0, producer_seq = 1, display_seq = 0 and consumer_seq = 0.
C6_EpochReset ==
  epoch_clean => /\ \A i \in Slots : seq[i] = 0
                 /\ producer_seq = 1
                 /\ display_seq = 0
                 /\ consumer_seq = 0

\* What a poll that observes resizing leaves alone, besides initialization_posted.
ResizingPollKeeps ==
  UNCHANGED << consumer_seq, display_seq, render_sync, flutter_textures,
               flutter_textures_valid, buffers_initialized >>

\* C7 as claimed: a poll that observes resizing = TRUE returns the 1x1
\* placeholder and has changed neither the exchange state nor the
\* initialization flags.
C7_ResizingPollChangesNothing ==
  [][(cpc = "check_resizing" /\ resizing /\ cpc' # cpc)
       => /\ cpc' = "idle"
          /\ ret' = DummyRet
          /\ ResizingPollKeeps
          /\ initialization_posted' = entry_posted]_vars

\* C7 as amended: a poll that observes resizing = TRUE returns the 1x1
\* placeholder with width = height = 1 and leaves consumer_seq, display_seq,
\* the fences, the texture cache and buffers_initialized unchanged; it may
\* have set initialization_posted, and only from FALSE to TRUE while the
\* pool is not initialized.
C7_ResizingPollKeepsExchange ==
  [][/\ (cpc = "check_resizing" /\ resizing /\ cpc' # cpc)
          => /\ cpc' = "idle"
             /\ ret' = DummyRet
             /\ ret'.w = 1 /\ ret'.h = 1 /\ ret'.name = DummyName
             /\ ResizingPollKeeps
             /\ (initialization_posted' # entry_posted
                   => (~entry_posted /\ initialization_posted'))
     /\ (cpc = "idle" /\ cpc' # cpc)
          => /\ ResizingPollKeeps
             /\ (initialization_posted' # initialization_posted
                   => (~initialization_posted /\ ~buffers_initialized))]_vars

\* C7 witness: a poll is about to observe resizing after it has set
\* initialization_posted.
C7_Witness ==
  cpc = "check_resizing" /\ resizing /\ initialization_posted /\ ~entry_posted

\* C8: a poll can always take its next step (it never waits for the render
\* thread, a mutex or a fence), and every poll returns TRUE with a non-zero
\* texture name.
C8_PollNeverBlocks ==
  /\ ENABLED HostStep
  /\ ret.kind # "none" => (ret.ok /\ ret.name # 0)

\* C8 witness: a poll is at the fence of a slot whose render has not completed.
C8_Witness ==
  cpc = "scan_sync" /\ render_sync[ci] # EGL_NO_SYNC_KHR /\ ~Signaled(ci)

\* C9: a poll during which every slot seq is 0 returns the 1x1 dummy texture
\* with result TRUE and hands out no slot.
C9_ColdStartDummy ==
  [][(PollReturns /\ poll_cold)
       => (ret'.kind = "dummy" /\ ret'.ok /\ ret'.w = 1 /\ ret'.h = 1)]_vars

\* C10: a poll that runs while the render thread is idle and every fence has
\* signaled, with at least one frame published, returns the slot with the
\* largest seq and leaves consumer_seq and display_seq at that seq.
C10_LatestFrameWins ==
  [][(PollReturns /\ poll_quiet /\ PoolMaxSeq > 0)
       => /\ ret'.kind = "slot"
          /\ seq[ret'.idx] = PoolMaxSeq
          /\ consumer_seq' = PoolMaxSeq
          /\ display_seq' = PoolMaxSeq]_vars


\* C11: consumer_seq never decreases, except by the store of 0 of a resize
\* (line 278).
C11_MonotonicConsumer ==
  [][consumer_seq' < consumer_seq => (rpc = "z_reset_consumer" /\ rpc' # rpc)]_vars

\* C11 witness: a poll is about to accept a frame newer than one accepted
\* before in the same epoch.
C11_Witness ==
  cpc = "accept" /\ best_idx >= 0 /\ consumer_seq > 0 /\ best_seq > consumer_seq

\* C12: texture_gl_swap_buffers stores a seq above every seq in the pool, 1
\* for the first publish after a reallocation, and producer_seq only grows
\* except for the store of 1 of a resize (line 276).
C12_PublishOrder ==
  [][/\ (rpc = "swap" /\ rpc' # rpc)
          => /\ seq'[write_index] = producer_seq
             /\ \A i \in Slots : seq[i] < seq'[write_index]
             /\ producer_seq' = producer_seq + 1
             /\ epoch_clean => seq'[write_index] = 1
     /\ producer_seq' < producer_seq
          => (rpc = "z_reset_producer" /\ producer_seq' = 1)
     /\ (\E i \in Slots : seq'[i] # seq[i])
          => rpc \in {"swap", "z_reset_seq"}]_vars

\* C12 witness: the third frame of an epoch is about to be published.
C12_Witness ==
  rpc = "swap" /\ producer_seq = 3 /\ \E i, j \in Slots : seq[i] = 1 /\ seq[j] = 2

\* C14: when texture_gl_check_and_resize returns after a reallocation, no slot
\* has a fence, no render is pending, every slot has an FBO and an image, the
\* pool has the requested size, buffers_initialized is TRUE and resizing is
\* FALSE.
C14_ResizeQuiescence ==
  [][(rpc = "z_clear_resizing" /\ rpc' # rpc)
       => /\ \A i \in Slots : /\ render_sync[i] = EGL_NO_SYNC_KHR
                                /\ fbo[i] # 0
                                /\ egl_image[i] # EGL_NO_IMAGE_KHR
          /\ gpu_queue = << >>
          /\ current_width = req_w /\ current_height = req_h
          /\ current_width' = req_w /\ current_height' = req_h
          /\ buffers_initialized'
          /\ ~resizing']_vars

\* C14 witness: the resize of an allocated pool waits on the fence of a slot
\* whose render is pending.
C14_Witness ==
  rpc = "z_wait" /\ render_sync[zi] # EGL_NO_SYNC_KHR /\ ~Signaled(zi)

\* C15: texture_gl_check_and_resize(w, h) on a pool initialized at (w, h)
\* returns at once and changes nothing.
C15_ResizeIdempotent ==
  [][(/\ rpc = "resize_check" /\ rpc' # rpc
      /\ buffers_initialized /\ current_width = req_w /\ current_height = req_h)
       => /\ rpc' = "render"
          /\ UNCHANGED << texvars, gpu_queue, flutter_backing >>]_vars

\* C15 witness: the call arrives with the pool at the requested size and a
\* frame published.
C15_Witness ==
  /\ rpc = "resize_check"
  /\ buffers_initialized /\ current_width = req_w /\ current_height = req_h
  /\ \E i \in Slots : seq[i] # 0 /\ render_sync[i] # EGL_NO_SYNC_KHR

(***************************************************************************)
(* Properties of the GLRenderThread.                                       *)
(***************************************************************************)

\* Task i was pushed onto tasks_ (line 38).
Pushed(i) == \E n \in 1 .. Len(accepted) : accepted[n] = i

\* Run called task i (line 122).
Executed(i) == \E n \in 1 .. Len(executed) : executed[n] = i

\* The task Run has taken from the queue and not yet called.
Pending == IF pc[Worker] = "exec" THEN << task >> ELSE << >>

\* Thread t is inside a call of member function f.
Inside(t, f) == op[t] = f /\ res[t] = "none" /\ pc[t] # Continue(t)

\* The call of member function f by thread t returns r in this step.
Returns(t, f, r) == Inside(t, f) /\ res'[t] = r

\* C16: the tasks Run has called, the one it has taken, and the ones still
\* queued are, in this order, the tasks in the order Post pushed them: Run
\* calls tasks strictly in the order Post accepted them, whichever threads
\* posted them, and the wrapper of a PostAndWait from another thread is
\* called after every task pushed before it.
C16_EnqueueOrder == accepted = executed \o Pending \o tasks_

C16_Witness ==
  /\ Len(executed) >= 2
  /\ executed[1] > executed[2]
  /\ \E h \in Hosts : op[h] = "PostAndWait" /\ arg[h] = executed[2]

\* C17: Post returns false only when it read stop_ = TRUE at one of its
\* two checks, and pushes (and then returns true) only when stop_ was FALSE
\* at its check under the mutex; a task whose Post returned false is never
\* pushed, called or run inline; a task whose Post returns true has been
\* pushed onto tasks_ (the worker may have taken it already).
C17_PostResult ==
  /\ [](\A i \in rejected : ~Pushed(i) /\ ~Executed(i) /\ i \notin completed
                               /\ i \notin inlined)
  /\ [][/\ accepted' # accepted => ~stop_
        /\ \A t \in Threads :
              /\ Returns(t, "Post", "false")
                   => (stop_ /\ arg[t] \in rejected' /\ accepted' = accepted)
              /\ Returns(t, "Post", "true")
                   => (Pushed(arg[t]) /\ arg[t] \notin rejected)]_vars

C17_Witness ==
  \E h \in Hosts : op[h] = "Post" /\ pc[h] = "p_push" /\ stop_

\* C18: a PostAndWait returns true only when its task has run to
\* completion: from a host thread the worker called it from the queue and
\* set done; on the worker itself the task ran inline in the call, was
\* never pushed, and tasks queued meanwhile are left untouched.  The worker
\* inside PostAndWait is never at a lock or a wait.
C18_PostAndWait ==
  /\ [](Inside(Worker, "PostAndWait") => pc[Worker] \in {"pw_check", "pw_inline"})
  /\ [][/\ \A h \in Hosts :
              Returns(h, "PostAndWait", "true")
                => (Executed(arg[h]) /\ arg[h] \in completed /\ done[h])
        /\ Returns(Worker, "PostAndWait", "true")
             => /\ arg[Worker] \in inlined' /\ arg[Worker] \in completed'
                /\ ~Pushed(arg[Worker])
                /\ UNCHANGED << tasks_, executed, mutex_ >>]_vars

C18_Witness ==
  /\ op[Worker] = "PostAndWait" /\ res[Worker] = "true"
  /\ arg[Worker] \in inlined
  /\ pc[Worker] = "body_end"
  /\ \E h \in Hosts : /\ op[h] = "PostAndWait" /\ pc[h] = "pw_blocked"
                       /\ tasks_ = << arg[h] >>

\* C19: the wake-up of RequestShutdown is never lost: a worker blocked in
\* cv_.wait while stop_ is TRUE has a notification on its way.
C19_WakeupNeverLost ==
  (pc[Worker] = "waiting" /\ stop_)
    => \E t \in Threads : pc[t] \in {"rs_notify", "p_notify"}

\* C20: when the worker has left its loop, the queue is empty and every
\* task Post pushed has been called and has returned; no task is called
\* twice; and after the worker left its loop no task is pushed, called or
\* completed.
C20_ShutdownDrains ==
  /\ [](pc[Worker] \in {"leave", "exited"}
          => /\ tasks_ = << >>
             /\ accepted = executed
             /\ \A n \in 1 .. Len(accepted) : accepted[n] \in completed)
  /\ [](\A m, n \in 1 .. Len(executed) : executed[m] = executed[n] => m = n)
  /\ [][pc[Worker] \in {"leave", "exited"}
           => UNCHANGED << tasks_, accepted, executed, completed, inlined >>]_vars

C20_Witness ==
  /\ stop_ /\ shutdown_returned
  /\ pc[Worker] = "exec"
  /\ tasks_ # << >>

(***************************************************************************)
(* Properties of the VideoOutput                                           *)
(***************************************************************************)

\* video_output_new has returned and video_output_dispose has not begun.
Constructed == hpc \in {"main", "idle_render", "idle_unlock"}

\* C21: with S/W rendering compiled in, video_output_new leaves the hardware
\* variant active (texture_gl set, texture_sw NULL) when every hardware init
\* step succeeded, and the software variant (texture_sw and pixel_buffer set,
\* texture_gl NULL) when one of them did not.
C21_OneVariant ==
  (sw_api /\ Constructed) =>
    IF hw_ok = HwSteps
      THEN texture_gl = "live" /\ texture_sw = "null"
      ELSE texture_sw = "live" /\ pixel_buffer = "live" /\ texture_gl = "null"

\* The texture was created and its registration failed: the software variant
\* is the active one.
C21_Witness ==
  /\ sw_api /\ Constructed
  /\ "current" \in hw_ok /\ "register" \notin hw_ok
  /\ texture_sw = "live" /\ texture_gl = "null"

\* C22: destroyed, once TRUE, stays TRUE, and no callback that begins
\* afterwards goes past its check of destroyed: a hardware update callback
\* that began afterwards never reaches the registrar call, and an idle
\* callback never renders while destroyed is set.
C22_DestroyedTerminal ==
  /\ [](~(dpc = "cb_mark" /\ cb_after))
  /\ []((hpc \in {"idle_render", "idle_unlock"}) => ~vo_destroyed)
  /\ [][vo_destroyed => vo_destroyed']_vars

\* The decoder has invoked the hardware callback after destroyed was set.
C22_Witness == dpc = "cb_check" /\ cb_after /\ vo_destroyed

\* A step that releases something: a texture is unregistered, the render
\* context is freed, the producer context is destroyed, the pixel buffer or
\* a texture object is released, or the teardown of the pool begins.
TeardownTaken ==
  \/ registered' # registered /\ registered' \subseteq registered
  \/ render_context /\ ~render_context'
  \/ context_alive /\ ~context_alive'
  \/ pixel_buffer # "freed" /\ pixel_buffer' = "freed"
  \/ texture_gl # "freed" /\ texture_gl' = "freed"
  \/ texture_sw # "freed" /\ texture_sw' = "freed"
  \/ tpc = "idle" /\ tpc' # "idle"

\* C23: in video_output_dispose the decoder's update callback is cleared
\* after destroyed is set and before any teardown step: no texture is
\* unregistered, no render context freed, no context destroyed and no pixel
\* buffer or texture object released while the decoder still holds a
\* callback.
C23_ClearBeforeTeardown ==
  /\ [][TeardownTaken => (update_cb = "none" /\ vo_destroyed)]_vars
  /\ [][(update_cb # "none" /\ update_cb' = "none") => vo_destroyed]_vars

\* The render context of the hardware path has been freed; its callback had
\* been set by video_output_new.
C23_Witness ==
  /\ hpc = "d_context" /\ texture_gl = "live"
  /\ free_log # {} /\ update_cb = "none"

\* C24: for every interleaving of video_output_dispose with an update
\* callback already running on the decoder thread, the callback never uses
\* the texture, the registrar's registration or the pixel buffer after
\* dispose has released them.
C24_NoUseAfterRelease == ~late_use

\* C25: on the hardware path, every mpv_render_context_free that
\* video_output_dispose makes happens with the producer context current on
\* the calling thread and with no slot of the pool holding a fence.
C25_FreeUnderContext == \A r \in free_log : r.current /\ ~r.fence

\* The pool holds no live fence, image, texture or FBO.
PoolEmpty ==
  \A i \in Slots : /\ render_sync[i] = EGL_NO_SYNC_KHR
                   /\ egl_image[i] = EGL_NO_IMAGE_KHR
                   /\ fbo[i] = 0

\* A step destroys an object of the pool.
PoolDestroys ==
  \E i \in Slots : \/ render_sync[i] # EGL_NO_SYNC_KHR /\ render_sync'[i] = EGL_NO_SYNC_KHR
                   \/ egl_image[i] # EGL_NO_IMAGE_KHR /\ egl_image'[i] = EGL_NO_IMAGE_KHR
                   \/ fbo[i] # 0 /\ fbo'[i] = 0

\* C26: in the teardown of the pool (texture_gl_dispose) every fence, image,
\* texture and FBO is destroyed by the task on the render thread, every
\* outstanding fence is waited on before it is destroyed, and once the
\* teardown has returned no slot holds a live fence, image, texture or FBO.
C26_PoolTeardown ==
  /\ [](unwaited = {})
  /\ [](texture_gl = "freed" => PoolEmpty)
  /\ [][(hpc # "main" /\ PoolDestroys) => tpc # "idle"]_vars

\* video_output_new or video_output_dispose returns in this step.
VoReturns ==
  \/ hpc = "new_fallback" /\ hpc' = "main"
  \/ hpc = "d_finish" /\ hpc' = "disposed"

\* C27: for every outcome of video_output_new and of video_output_dispose the
\* host thread's current EGL context, draw surface and read surface are on
\* return what they were on entry.
C27_HostStatePreserved == [][VoReturns => host_cur' = host_entry']_vars

\* C28: video_output_dispose destroys only what the component created: the
\* only surface it ever hands to eglDestroySurface is a pbuffer it created,
\* never a surface of the host, also when the drawable in use is the host's
\* draw surface.
C28_DestroysOnlyOwn == surfaces_destroyed \subseteq {"pbuffer"}

\* The size w x h has the aspect ratio of a x b up to the rounding of one
\* dimension to an integer.
AspectKept(w, h, a, b) ==
  LET d == w * b - h * a
      m == IF a > b THEN a ELSE b
  IN  (IF d < 0 THEN 0 - d ELSE d) < m

\* C29: in software mode with no fixed size, for every size the decoder
\* reports, the pair (video_output_get_width, video_output_get_height) is
\* within SW_RENDERING_MAX_WIDTH x SW_RENDERING_MAX_HEIGHT, is non-zero when
\* the reported size is, and keeps its aspect ratio up to integer rounding
\* (4000x3000 gives 1440x1080).
C29_SoftwareSize ==
  (hpc = "queried" /\ texture_sw = "live" /\ width = 0 /\ height = 0) =>
    /\ got_width <= SW_RENDERING_MAX_WIDTH
    /\ got_height <= SW_RENDERING_MAX_HEIGHT
    /\ (RotatedWidth # 0 /\ RotatedHeight # 0) =>
         /\ got_width # 0 /\ got_height # 0
         /\ AspectKept(got_width, got_height, RotatedWidth, RotatedHeight)

\* C30: in hardware mode video_output_get_width and video_output_get_height
\* decide dimension by dimension: a dimension set to a non-zero value is
\* returned as set, a dimension set to 0 is the decoder's rotation-adjusted
\* size, whatever the other dimension is set to.
C30_PerDimension ==
  (hpc = "queried" /\ texture_gl = "live") =>
    /\ got_width = (IF width # 0 THEN width ELSE RotatedWidth)
    /\ got_height = (IF height # 0 THEN height ELSE RotatedHeight)

(***************************************************************************)
(* Properties of the frame exchange, continued                             *)
(***************************************************************************)

\* The slots select_write_buffer may not skip at line 305, on the display_seq
\* it loaded.
Eligible == {i \in Slots : seq[i] # current_display_seq \/ current_display_seq = 0}

\* select_write_buffer returns in this step.
SelectReturns == rpc = "r_select" /\ rpc' # rpc

\* C31 as claimed: select_write_buffer returns an index in 0..2, never -1, and
\* the returned slot has the smallest seq among the slots whose seq differs
\* from the display_seq it loaded.
C31_SmallestUndisplayed ==
  [][SelectReturns =>
       LET w == select_write_buffer(current_display_seq, seq)
       IN  /\ w \in Slots
           /\ seq[w] # current_display_seq
           /\ \A j \in Slots : seq[j] # current_display_seq => seq[w] <= seq[j]]_vars

\* C31 as amended: select_write_buffer returns an index in 0..2, never -1, and
\* the returned slot has the smallest seq among the slots whose seq differs
\* from the display_seq it loaded, or among all slots when that display_seq
\* is 0 (a slot with seq 0 is the oldest).
C31_SmallestEligible ==
  [][SelectReturns =>
       LET w == select_write_buffer(current_display_seq, seq)
       IN  /\ w \in Slots
           /\ w \in Eligible
           /\ \A j \in Eligible : seq[w] <= seq[j]]_vars

\* C31 witness: select_write_buffer runs with three published frames while
\* the displayed slot is neither the oldest nor the newest.
C31_Witness ==
  /\ rpc = "r_select"
  /\ \A i \in Slots : seq[i] # 0
  /\ \E i, j, k \in Slots : /\ seq[i] < seq[j] /\ seq[j] < seq[k]
                            /\ seq[j] = current_display_seq

\* The non-zero seqs of the pool are pairwise distinct.
SeqsDistinct ==
  \A i, j \in Slots : (i # j /\ seq[i] # 0) => seq[i] # seq[j]

\* C32: the non-zero slot seqs are pairwise distinct, so at most one slot has
\* seq = display_seq when display_seq is not 0; and, outside the reset window
\* of a resize, a display_seq that is not 0 is the seq of some slot.
C32_DisplaySeqLive ==
  /\ SeqsDistinct
  /\ display_seq # 0 => Cardinality({i \in Slots : seq[i] = display_seq}) <= 1
  /\ (~resizing /\ display_seq # 0) => \E i \in Slots : seq[i] = display_seq

\* C38: outside the reset window of a resize, consumer_seq < producer_seq: the
\* consumer has accepted only sequence numbers published in the current
\* epoch, also when a poll overlapped a resize.
C38_ConsumerBehindProducer ==
  ~resizing => consumer_seq < producer_seq

(***************************************************************************)
(* Properties of the GLRenderThread, continued                             *)
(***************************************************************************)

\* C39: the wrapper task of a PostAndWait from a host thread never touches
\* the caller's done, wait_mutex or wait_cv after that PostAndWait has
\* returned: its wait_cv.notify_one() always runs while the caller is still
\* inside the call.
C39_WrapperInsideCall ==
  /\ ~stale_notify
  /\ pc[Worker] = "w_notify" => Waiting(waiter, task)

(***************************************************************************)
(* Properties of the double-buffered TextureGL                             *)
(***************************************************************************)

\* texture_gl_swap_buffers runs in this step.
SwapStep == bpc = "swap" /\ bpc' = "idle"

\* C40: texture_gl_swap_buffers exchanges front and back only when the task's
\* texture_gl_render has rendered a frame into the back buffer; after a
\* skipped render it leaves front_index unchanged, and an exchange never
\* puts an older frame in front.
C40_SwapOnlyFreshFrame ==
  [][SwapStep =>
       /\ (front_index' # front_index) => rendered
       /\ ~rendered => front_index' = front_index
       /\ frame_in[front_index'] >= frame_in[front_index]]_vars

(***************************************************************************)
(* Properties of the software path                                         *)
(***************************************************************************)

\* The idle callback has handed the size << got_width, got_height >> to the
\* decoder's render call (lines 295-306) and has not unlocked yet.
SwRendered == hpc = "idle_unlock" /\ got_width > 0 /\ got_height > 0

\* C36: in software mode every size the idle callback hands to the decoder's
\* render call satisfies 0 < w <= SW_RENDERING_MAX_WIDTH and
\* 0 < h <= SW_RENDERING_MAX_HEIGHT, so the frame of 4*w*h bytes fits the
\* pixel buffer, whether the size comes from the configuration, from
\* video_output_set_size or from the decoder.
C36_SwSizeFitsBuffer ==
  (SwRendered /\ texture_sw = "live")
    => /\ got_width <= SW_RENDERING_MAX_WIDTH
       /\ got_height <= SW_RENDERING_MAX_HEIGHT
       /\ 4 * got_width * got_height
            <= 4 * SW_RENDERING_MAX_WIDTH * SW_RENDERING_MAX_HEIGHT

\* The running render task cannot render its frame: there is no render
\* context (line 335), the selected slot has no FBO (line 351), or the
\* decoder's render call of line 378 reported an error.
RenderFails ==
  \/ rpc = "render" /\ ~render_context
  \/ rpc = "r_select" /\ fbo[select_write_buffer(current_display_seq, seq)] = 0
  \/ rpc \in {"r_create_sync", "swap"} /\ render_error

\* C35: when a frame cannot be rendered (the decoder's render call reports
\* an error, there is no render context, or the selected slot has no FBO),
\* the frame is discarded: no step taken from there gives a slot a new seq
\* or advances producer_seq.
C35_FailedFrameDiscarded ==
  [][RenderFails => seq' = seq /\ producer_seq' = producer_seq]_vars

\* C33: a poll that found no candidate keeps the previous display slot.  An
\* earlier poll of the epoch has chosen a display slot exactly when
\* display_seq is not 0 (texture_gl_check_and_resize stores 0, line 277, and
\* only line 504 stores anything else); that slot is the one whose seq is
\* display_seq.  The accept step of such a poll leaves consumer_seq as it is,
\* and its step of lines 503-505 leaves display_seq as it is and has chosen
\* the slot that carries display_seq.
C33_NoCandidateKeepsDisplay ==
  [][/\ (cpc = "accept" /\ best_idx < 0 /\ cpc' # cpc)
          => consumer_seq' = consumer_seq
     /\ (cpc = "store_display" /\ no_candidate /\ display_seq # 0 /\ cpc' # cpc)
          => /\ display_seq' = display_seq
             /\ seq[display_idx] = display_seq]_vars

\* C34: the producer's step order per frame and what the consumer finds.
\* The slot being rendered into has no fence (the old one was destroyed
\* first); when the seq is about to be stored the slot's fence, if it has
\* one, is this frame's; and a poll that has read the seq of the frame a
\* slot holds (line 452) finds at line 456 the fence of that frame, or none.
C34_FenceOfFrameRead ==
  /\ rpc = "r_mpv" => render_sync[write_index] = EGL_NO_SYNC_KHR
  /\ rpc = "swap" => render_sync[write_index] \in {EGL_NO_SYNC_KHR, producer_seq}
  /\ cpc = "scan_sync" /\ read_fresh => render_sync[ci] \in {EGL_NO_SYNC_KHR, buf_seq}

(***************************************************************************)
(* Properties of the fence handles                                         *)
(***************************************************************************)

\* C37: fence handle lifetime.  The handle the poll found at line 458 and is
\* about to pass to eglClientWaitSyncKHR (line 459) and eglDestroySyncKHR
\* (line 465) is still the slot's live fence: the render thread has not
\* destroyed it, so no handle is waited on after its destruction or
\* destroyed twice.
C37_FenceHandleLive ==
  cpc = "scan_wait" => render_sync[ci] = seen_sync

====
